---- MODULE Spec2Model ----
(***************************************************************************)
(* A model of two parts of the repository.                                 *)
(*                                                                         *)
(* The RFQ normalization engine of examples/financial_inquiry_parser       *)
(* (normalize.py and schema.py): every entry point is a pure function of   *)
(* its arguments and the injected current date.  A call is modelled as a   *)
(* two-step state machine: Init draws the arguments, one action per entry  *)
(* point computes the result.                                              *)
(*                                                                         *)
(* The asynchronous HTTP connector of hz_connector.py: coroutines of one   *)
(* event loop, which run without interruption from one suspension point    *)
(* (a lock that is taken, a request in flight, a sleep) to the next.  One  *)
(* action is one such run of one coroutine.                                *)
(*                                                                         *)
(* Python values are carried as follows:                                   *)
(*   str            a sequence of characters, each a one-character string *)
(*                  (a CJK character is named by its code point)           *)
(*   Optional[T]    None == <<>>, a present value v as Some(v) == <<v>>    *)
(*   date           a triple <<year, month, day>>                          *)
(*   float months   an integer count of half months (the floats k/2, which *)
(*                  are exact in binary floating point)                    *)
(*   a call result  [kind |-> "return", value |-> v] or                   *)
(*                  [kind |-> "raise", value |-> <exception name>]        *)
(***************************************************************************)
EXTENDS Integers, Sequences, FiniteSets, TLC

\* pc          the calls, or the steps of calls, still to be made
\* args        the arguments drawn for the calls
\* ret, ret2   the outcomes of the calls
\* tables      the module-level lookup tables of normalize.py
\* frames      the local dict `candidates` of each running
\*             find_product_candidates call; the locals of each running
\*             _make_request_async call
\* conn        the fields of the AsyncHZConnector, None while none exists
\* locks       the asyncio.Lock objects the connector has created
VARIABLES pc, args, ret, ret2, tables, frames, conn, locks

vars == <<pc, args, ret, ret2, tables, frames, conn, locks>>

----------------------------------------------------------------------------
(* Optional values and call outcomes *)

None == <<>>

Some(v) == <<v>>

IsNone(o) == Len(o) = 0

Val(o) == o[1]

Pending == [kind |-> "pending", value |-> None]

Return(v) == [kind |-> "return", value |-> v]

Raise(e) == [kind |-> "raise", value |-> e]

Returned(r) == r.kind = "return"

Raised(r) == r.kind = "raise"

----------------------------------------------------------------------------
(* Characters and strings *)

LowerCase ==
    <<"a","b","c","d","e","f","g","h","i","j","k","l","m",
      "n","o","p","q","r","s","t","u","v","w","x","y","z">>

UpperCase ==
    <<"A","B","C","D","E","F","G","H","I","J","K","L","M",
      "N","O","P","Q","R","S","T","U","V","W","X","Y","Z">>

DigitChars == <<"0","1","2","3","4","5","6","7","8","9">>

Range(s) == {s[i] : i \in DOMAIN s}

LowerLetters == Range(LowerCase)

UpperLetters == Range(UpperCase)

Digits == Range(DigitChars)

IsLower(c) == c \in LowerLetters

IsUpper(c) == c \in UpperLetters

\* [a-z] under (?i): an ASCII letter of either case
IsLetter(c) == IsLower(c) \/ IsUpper(c)

\* [0-9]
IsDigit(c) == c \in Digits

\* \s, and what str.strip() removes
IsSpace(c) == c \in {" ", "\t", "\n"}

UpperChar(c) ==
    IF IsLower(c) THEN UpperCase[CHOOSE i \in DOMAIN LowerCase : LowerCase[i] = c]
    ELSE c

\* str.upper()
upper(s) == [i \in DOMAIN s |-> UpperChar(s[i])]

RECURSIVE lstrip(_)
lstrip(s) == IF s # <<>> /\ IsSpace(Head(s)) THEN lstrip(Tail(s)) ELSE s

RECURSIVE rstrip(_)
rstrip(s) ==
    IF s # <<>> /\ IsSpace(s[Len(s)]) THEN rstrip(SubSeq(s, 1, Len(s) - 1)) ELSE s

\* str.strip()
strip(s) == rstrip(lstrip(s))

DigitVal(c) == (CHOOSE i \in DOMAIN DigitChars : DigitChars[i] = c) - 1

\* int(s) for a non-empty string of ASCII digits
RECURSIVE int(_)
int(s) ==
    IF Len(s) = 0 THEN 0
    ELSE 10 * int(SubSeq(s, 1, Len(s) - 1)) + DigitVal(s[Len(s)])

\* str(n) for n >= 0
RECURSIVE str(_)
str(n) ==
    IF n < 10 THEN <<DigitChars[n + 1]>>
    ELSE str(n \div 10) \o <<DigitChars[(n % 10) + 1]>>

RECURSIVE Zeros(_)
Zeros(k) == IF k <= 0 THEN <<>> ELSE <<"0">> \o Zeros(k - 1)

\* f"{n:0wd}" for n >= 0: zero padding to a minimum width, never truncating
Format(n, w) == Zeros(w - Len(str(n))) \o str(n)

----------------------------------------------------------------------------
(* datetime.date: the proleptic Gregorian calendar of the standard library *)

MINYEAR == 1

MAXYEAR == 9999

Year(d) == d[1]

Month(d) == d[2]

Day(d) == d[3]

IsLeap(y) == y % 4 = 0 /\ (y % 100 # 0 \/ y % 400 = 0)

DaysInMonth(y, m) ==
    IF m = 2 THEN (IF IsLeap(y) THEN 29 ELSE 28)
    ELSE IF m \in {4, 6, 9, 11} THEN 30 ELSE 31

DaysBeforeYear(y) ==
    (y - 1) * 365 + (y - 1) \div 4 - (y - 1) \div 100 + (y - 1) \div 400

RECURSIVE DaysBeforeMonth(_, _)
DaysBeforeMonth(y, m) ==
    IF m <= 1 THEN 0 ELSE DaysBeforeMonth(y, m - 1) + DaysInMonth(y, m - 1)

\* date(year, month, day): ValueError on a date that does not exist
date(y, m, d) ==
    IF /\ y \in MINYEAR..MAXYEAR
       /\ m \in 1..12
       /\ d \in 1..DaysInMonth(y, m)
    THEN Return(<<y, m, d>>)
    ELSE Raise("ValueError")

toordinal(d) == DaysBeforeYear(Year(d)) + DaysBeforeMonth(Year(d), Month(d)) + Day(d)

MaxOrdinal == DaysBeforeYear(MAXYEAR + 1)

RECURSIVE MonthOfDayInYear(_, _, _)
MonthOfDayInYear(y, m, rest) ==
    IF rest <= DaysInMonth(y, m) THEN <<y, m, rest>>
    ELSE MonthOfDayInYear(y, m + 1, rest - DaysInMonth(y, m))

\* date.fromordinal(n) for 1 <= n <= MaxOrdinal
fromordinal(n) ==
    LET n0   == n - 1
        n400 == n0 \div 146097
        r400 == n0 % 146097
        n100 == r400 \div 36524
        r100 == r400 % 36524
        n4   == r100 \div 1461
        r4   == r100 % 1461
        n1   == r4 \div 365
        r1   == r4 % 365
        y    == n400 * 400 + n100 * 100 + n4 * 4 + n1 + 1
    IN  IF n1 = 4 \/ n100 = 4 THEN <<y - 1, 12, 31>>
        ELSE MonthOfDayInYear(y, 1, r1 + 1)

\* date + timedelta(days=k): OverflowError outside date.min..date.max
AddDays(d, k) ==
    LET n == toordinal(d) + k
    IN  IF n \in 1..MaxOrdinal THEN Return(fromordinal(n)) ELSE Raise("OverflowError")

\* date.weekday(): Monday is 0, Sunday is 6
weekday(d) == (toordinal(d) + 6) % 7

\* date.isoformat()
isoformat(d) ==
    Format(Year(d), 4) \o <<"-">> \o Format(Month(d), 2) \o <<"-">> \o Format(Day(d), 2)

\* (month, day) < (current.month, current.day), the tuple order
MonthDayLess(m1, d1, m2, d2) == m1 < m2 \/ (m1 = m2 /\ d1 < d2)

----------------------------------------------------------------------------
(* DateArithmetic *)

_last_day_of_month(year, month) ==
    LET next_month == IF month = 12 THEN date(year + 1, 1, 1) ELSE date(year, month + 1, 1)
    IN  IF Raised(next_month) THEN next_month
        ELSE LET prev == AddDays(next_month.value, -1)
             IN  IF Raised(prev) THEN prev ELSE Return(Day(prev.value))

Min(a, b) == IF a <= b THEN a ELSE b

\* int(months): truncation toward zero of the float months = halves / 2
WholeMonths(halves) == IF halves >= 0 THEN halves \div 2 ELSE -((-halves) \div 2)

\* int(round(frac * 30)) for frac = months - int(months), one of -0.5, 0, 0.5
FracDays(halves) == 15 * (halves - 2 * WholeMonths(halves))

add_months(start, halves) ==
    LET whole  == WholeMonths(halves)
        month0 == Month(start) + whole
        year   == Year(start) + (month0 - 1) \div 12
        month  == ((month0 - 1) % 12) + 1
        last   == _last_day_of_month(year, month)
    IN  IF Raised(last) THEN last
        ELSE LET out == date(year, month, Min(Day(start), last.value))
             IN  IF Raised(out) THEN out
                 ELSE IF FracDays(halves) # 0 THEN AddDays(out.value, FracDays(halves))
                 ELSE out

add_natural_days(start, days) == AddDays(start, days)

RECURSIVE TradingDaysLoop(_, _)
TradingDaysLoop(d, remaining) ==
    IF remaining > 0
    THEN LET next == AddDays(d, 1)
         IN  IF Raised(next) THEN next
             ELSE IF weekday(next.value) >= 5 THEN TradingDaysLoop(next.value, remaining)
             ELSE TradingDaysLoop(next.value, remaining - 1)
    ELSE Return(d)

\* add_trading_days_weekends_only counting every calendar day
add_trading_days_weekends_only_NoSkip(start, days) ==
    IF days <= 0 THEN Return(start) ELSE AddDays(start, days)

add_trading_days_weekends_only(start, days) ==
    IF days <= 0 THEN Return(start) ELSE TradingDaysLoop(start, days)

----------------------------------------------------------------------------
(* ContractCodeResolver *)

\* The ways the pattern
\*   (?i)(?<![a-z])([a-z]{1,6})\s*([0-9]{lo,hi})(?![0-9])
\* matches t starting at position i: <<n, w, k>> for n letters, w white-space
\* characters and k digits.
ContractMatchesAt(t, i, lo, hi) ==
    { x \in (1..6) \X (0..Len(t)) \X (lo..hi) :
        LET n == x[1]
            w == x[2]
            k == x[3]
            e == i + n + w + k
        IN  /\ e - 1 <= Len(t)
            /\ (i = 1 \/ ~IsLetter(t[i - 1]))
            /\ \A j \in i..(i + n - 1) : IsLetter(t[j])
            /\ \A j \in (i + n)..(i + n + w - 1) : IsSpace(t[j])
            /\ \A j \in (i + n + w)..(e - 1) : IsDigit(t[j])
            /\ (e > Len(t) \/ ~IsDigit(t[e])) }

\* The match the greedy quantifiers prefer: most letters, then most white
\* space, then most digits.
GreedyMatch(S) ==
    CHOOSE x \in S : \A y \in S :
        \/ x[1] > y[1]
        \/ (x[1] = y[1] /\ x[2] > y[2])
        \/ (x[1] = y[1] /\ x[2] = y[2] /\ x[3] >= y[3])

\* re.search: the leftmost match, as Some([product, digits]), or None
ContractSearch(t, lo, hi) ==
    LET starts == { i \in 1..Len(t) : ContractMatchesAt(t, i, lo, hi) # {} }
    IN  IF starts = {} THEN None
        ELSE LET i == CHOOSE a \in starts : \A b \in starts : a <= b
                 x == GreedyMatch(ContractMatchesAt(t, i, lo, hi))
             IN  Some([product |-> SubSeq(t, i, i + x[1] - 1),
                       digits  |-> SubSeq(t, i + x[1] + x[2], i + x[1] + x[2] + x[3] - 1)])

\* infer_contract_code with the month check of the explicit YYMM branch left out
infer_contract_code_NoMonthCheck(text, current_date) ==
    LET t  == strip(text)
        m  == ContractSearch(t, 4, 4)
        m2 == ContractSearch(t, 1, 2)
    IN  IF ~IsNone(m)
        THEN Some(upper(Val(m).product) \o Val(m).digits)
        ELSE IF IsNone(m2) THEN None
        ELSE LET product == upper(Val(m2).product)
                 month   == int(Val(m2).digits)
                 year0   == Year(current_date) % 100
                 year    == IF month < Month(current_date) THEN (year0 + 1) % 100 ELSE year0
             IN  IF ~(1 <= month /\ month <= 12) THEN None
                 ELSE Some(product \o Format(year, 2) \o Format(month, 2))

\* infer_contract_code taking the year of an explicit YYMM from the current
\* date instead of from the text
infer_contract_code_YearFromDate(text, current_date) ==
    LET t  == strip(text)
        m  == ContractSearch(t, 4, 4)
        m2 == ContractSearch(t, 1, 2)
    IN  IF ~IsNone(m)
        THEN LET product == upper(Val(m).product)
                 yymm    == Val(m).digits
                 mm      == int(SubSeq(yymm, 3, 4))
             IN  IF 1 <= mm /\ mm <= 12
                 THEN Some(product \o Format(Year(current_date) % 100, 2) \o SubSeq(yymm, 3, 4))
                 ELSE None
        ELSE IF IsNone(m2) THEN None
        ELSE LET product == upper(Val(m2).product)
                 month   == int(Val(m2).digits)
                 year0   == Year(current_date) % 100
                 year    == IF month < Month(current_date) THEN (year0 + 1) % 100 ELSE year0
             IN  IF ~(1 <= month /\ month <= 12) THEN None
                 ELSE Some(product \o Format(year, 2) \o Format(month, 2))

infer_contract_code(text, current_date) ==
    LET t  == strip(text)
        m  == ContractSearch(t, 4, 4)
        m2 == ContractSearch(t, 1, 2)
    IN  IF ~IsNone(m)
        THEN LET product == upper(Val(m).product)
                 yymm    == Val(m).digits
                 mm      == int(SubSeq(yymm, 3, 4))
             IN  IF 1 <= mm /\ mm <= 12 THEN Some(product \o yymm) ELSE None
        ELSE IF IsNone(m2) THEN None
        ELSE LET product == upper(Val(m2).product)
                 month   == int(Val(m2).digits)
                 year0   == Year(current_date) % 100
                 year    == IF month < Month(current_date) THEN (year0 + 1) % 100 ELSE year0
             IN  IF ~(1 <= month /\ month <= 12) THEN None
                 ELSE Some(product \o Format(year, 2) \o Format(month, 2))

\* generated_contract_suffix_rules.PRODUCT_SUFFIX_FORMAT: the products whose
\* suffix format is "YMM" (OI is, by test_build_contract_code_from_parts)
PRODUCT_SUFFIX_FORMAT == { <<"O", "I">> }

_uses_ymm_contract_suffix(product) == product \in PRODUCT_SUFFIX_FORMAT

\* _resolve_contract_year rolling to the next year also in the current month
_resolve_contract_year_RollOnEqual(month, current_date, contract_year) ==
    IF ~IsNone(contract_year)
    THEN LET cy         == Val(contract_year)
             current_yy == Year(current_date) % 100
             candidate  == (current_yy \div 10) * 10 + cy
         IN  IF cy < 0 THEN None
             ELSE IF cy >= 100 THEN Some(cy % 100)
             ELSE IF cy < 10
             THEN IF \/ candidate < current_yy
                     \/ (candidate = current_yy /\ month < Month(current_date))
                  THEN Some(candidate + 10)
                  ELSE Some(candidate)
             ELSE Some(cy)
    ELSE LET year == Year(current_date) % 100
         IN  IF month <= Month(current_date) THEN Some((year + 1) % 100) ELSE Some(year)

\* _resolve_contract_year without the rejection of a negative year
_resolve_contract_year_NegativeWraps(month, current_date, contract_year) ==
    IF ~IsNone(contract_year)
    THEN LET cy         == Val(contract_year)
             current_yy == Year(current_date) % 100
             candidate  == (current_yy \div 10) * 10 + cy
         IN  IF cy >= 100 \/ cy < 0 THEN Some(cy % 100)
             ELSE IF cy < 10
             THEN IF \/ candidate < current_yy
                     \/ (candidate = current_yy /\ month < Month(current_date))
                  THEN Some(candidate + 10)
                  ELSE Some(candidate)
             ELSE Some(cy)
    ELSE LET year == Year(current_date) % 100
         IN  IF month < Month(current_date) THEN Some((year + 1) % 100) ELSE Some(year)

_resolve_contract_year(month, current_date, contract_year) ==
    IF ~IsNone(contract_year)
    THEN LET cy         == Val(contract_year)
             current_yy == Year(current_date) % 100
             candidate  == (current_yy \div 10) * 10 + cy
         IN  IF cy < 0 THEN None
             ELSE IF cy >= 100 THEN Some(cy % 100)
             ELSE IF cy < 10
             THEN IF \/ candidate < current_yy
                     \/ (candidate = current_yy /\ month < Month(current_date))
                  THEN Some(candidate + 10)
                  ELSE Some(candidate)
             ELSE Some(cy)
    ELSE LET year == Year(current_date) % 100
         IN  IF month < Month(current_date) THEN Some((year + 1) % 100) ELSE Some(year)

\* re.fullmatch(r"[A-Z]{1,6}", product)
IsProductCode(product) ==
    /\ Len(product) \in 1..6
    /\ \A j \in DOMAIN product : IsUpper(product[j])

build_contract_code_from_parts(current_date, product_code, contract_month, contract_year) ==
    IF IsNone(product_code) \/ Val(product_code) = <<>> \/ IsNone(contract_month)
    THEN Return(None)
    ELSE LET product == upper(strip(Val(product_code)))
             month   == Val(contract_month)
             year    == _resolve_contract_year(month, current_date, contract_year)
         IN  IF ~IsProductCode(product) THEN Return(None)
             ELSE IF ~(1 <= month /\ month <= 12) THEN Return(None)
             ELSE IF IsNone(year) THEN Return(None)
             ELSE IF _uses_ymm_contract_suffix(product)
             THEN Return(Some(product \o str(Val(year) % 10) \o Format(month, 2)))
             ELSE Return(Some(product \o Format(Val(year), 2) \o Format(month, 2)))

\* re.sub(r"\s+", "", value)
RemoveSpaces(value) == SelectSeq(value, LAMBDA c : ~IsSpace(c))

normalize_contract_code(value, current_date) ==
    IF IsNone(value) \/ Val(value) = <<>> THEN None
    ELSE infer_contract_code(RemoveSpaces(Val(value)), current_date)

----------------------------------------------------------------------------
(* ExpiryResolver *)

\* _infer_year_for_month_day rolling to the next year on today's month and day
\* too
_infer_year_for_month_day_RollOnEqual(current, month, day) ==
    IF ~MonthDayLess(Month(current), Day(current), month, day)
    THEN Year(current) + 1
    ELSE Year(current)

_infer_year_for_month_day(current, month, day) ==
    IF MonthDayLess(month, day, Month(current), Day(current))
    THEN Year(current) + 1
    ELSE Year(current)

\* The CJK characters of the patterns, by code point: the month sign, the two
\* day signs
YUE == "U+6708"

RI == "U+65E5"

HAO == "U+53F7"

\* The length of the run of digits of s that starts at position i
RECURSIVE DigitRun(_, _)
DigitRun(s, i) == IF i <= Len(s) /\ IsDigit(s[i]) THEN 1 + DigitRun(s, i + 1) ELSE 0

\* The length of the run of white space of s that starts at position i
RECURSIVE SpaceRun(_, _)
SpaceRun(s, i) == IF i <= Len(s) /\ IsSpace(s[i]) THEN 1 + SpaceRun(s, i + 1) ELSE 0

\* re.match(r"^([0-9]{1,2})\s*<YUE>\s*([0-9]{1,2})\s*[<RI><HAO>]?$", s): the two
\* groups as Some(<<month digits, day digits>>), or None.  Digits, white space and
\* the signs are disjoint classes, so each quantifier can only take the whole run
\* at its place: the pattern matches exactly when both digit runs have 1 or 2
\* digits and nothing is left after the optional day sign.
MonthDayMatch(s) ==
    LET a  == DigitRun(s, 1)
        p1 == a + SpaceRun(s, a + 1) + 1
        q  == p1 + 1 + SpaceRun(s, p1 + 1)
        d  == DigitRun(s, q)
        p3 == q + d + SpaceRun(s, q + d)
        f  == IF p3 <= Len(s) /\ s[p3] \in {RI, HAO} THEN 1 ELSE 0
    IN  IF /\ a \in 1..2
           /\ p1 <= Len(s)
           /\ s[p1] = YUE
           /\ d \in 1..2
           /\ p3 + f = Len(s) + 1
        THEN Some(<<SubSeq(s, 1, a), SubSeq(s, q, q + d - 1)>>)
        ELSE None

\* re.search(r"[0-9]{4}", s)
HasFourDigits(s) ==
    \E i \in 1..(Len(s) - 3) : \A j \in i..(i + 3) : IsDigit(s[j])

DateSeparators == {"-", "/", "."}

\* s read as <4 digits> sep <1 or 2 digits> sep <1 or 2 digits>: the three
\* numbers as Some(<<year, month, day>>), or None
YearMonthDayMatch(s) ==
    LET a == DigitRun(s, 6)
        b == DigitRun(s, 7 + a)
    IN  IF /\ DigitRun(s, 1) = 4
           /\ Len(s) >= 8
           /\ s[5] \in DateSeparators
           /\ a \in 1..2
           /\ 6 + a <= Len(s)
           /\ s[6 + a] \in DateSeparators
           /\ b \in 1..2
           /\ Len(s) = 6 + a + b
        THEN Some(<<int(SubSeq(s, 1, 4)), int(SubSeq(s, 6, 5 + a)),
                    int(SubSeq(s, 7 + a, 6 + a + b))>>)
        ELSE None

\* dateutil_parser.parse(s, yearfirst=True, dayfirst=False, fuzzy=False).date()
\* on a string holding four digits in a row, for the year-first numeric forms
\* (2026-04-15, 2026/4/15, 2026.4.15); ParserError is a ValueError.  Strings
\* of another form are not among the inputs drawn below.
dateutil_parse(s) ==
    LET m == YearMonthDayMatch(s)
    IN  IF IsNone(m) THEN Raise("ValueError")
        ELSE date(Val(m)[1], Val(m)[2], Val(m)[3])

\* _parse_expire_date_str without the except clause of the month-day branch
_parse_expire_date_str_Uncaught(s0, current_date) ==
    LET s == strip(s0)
        m == MonthDayMatch(s)
    IN  IF ~IsNone(m)
        THEN LET month == int(Val(m)[1])
                 day   == int(Val(m)[2])
                 year  == _infer_year_for_month_day(current_date, month, day)
                 made  == date(year, month, day)
             IN  IF Raised(made) THEN made ELSE Return(Some(made.value))
        ELSE IF HasFourDigits(s)
        THEN LET parsed == dateutil_parse(s)
             IN  IF Raised(parsed) THEN Return(None) ELSE Return(Some(parsed.value))
        ELSE Return(None)

\* Returns an Optional date; the ValueError (and OverflowError) of either
\* branch is caught there and gives None.
_parse_expire_date_str(s0, current_date) ==
    LET s == strip(s0)
        m == MonthDayMatch(s)
    IN  IF ~IsNone(m)
        THEN LET month == int(Val(m)[1])
                 day   == int(Val(m)[2])
                 year  == _infer_year_for_month_day(current_date, month, day)
                 made  == date(year, month, day)
             IN  IF Raised(made) THEN Return(None) ELSE Return(Some(made.value))
        ELSE IF HasFourDigits(s)
        THEN LET parsed == dateutil_parse(s)
             IN  IF Raised(parsed) THEN Return(None) ELSE Return(Some(parsed.value))
        ELSE Return(None)

\* .isoformat() of a computed date; an exception of the computation propagates
IsoOf(outcome) == IF Raised(outcome) THEN outcome ELSE Return(Some(isoformat(outcome.value)))

\* infer_expire_date trying the natural days before the trading days
infer_expire_date_NaturalFirst(current_date, explicit_expire_date, expire_in_months, expire_in_natural_days, expire_in_trading_days) ==
    LET d == IF ~IsNone(explicit_expire_date) /\ Val(explicit_expire_date) # <<>>
             THEN _parse_expire_date_str(Val(explicit_expire_date), current_date)
             ELSE Return(None)
    IN  IF Raised(d) THEN d
        ELSE IF ~IsNone(d.value) THEN Return(Some(isoformat(Val(d.value))))
        ELSE IF ~IsNone(expire_in_months)
        THEN IsoOf(add_months(current_date, Val(expire_in_months)))
        ELSE IF ~IsNone(expire_in_natural_days)
        THEN IsoOf(add_natural_days(current_date, Val(expire_in_natural_days)))
        ELSE IF ~IsNone(expire_in_trading_days)
        THEN IsoOf(add_trading_days_weekends_only(current_date, Val(expire_in_trading_days)))
        ELSE Return(None)

infer_expire_date(current_date, explicit_expire_date, expire_in_months, expire_in_natural_days, expire_in_trading_days) ==
    LET d == IF ~IsNone(explicit_expire_date) /\ Val(explicit_expire_date) # <<>>
             THEN _parse_expire_date_str(Val(explicit_expire_date), current_date)
             ELSE Return(None)
    IN  IF Raised(d) THEN d
        ELSE IF ~IsNone(d.value) THEN Return(Some(isoformat(Val(d.value))))
        ELSE IF ~IsNone(expire_in_months)
        THEN IsoOf(add_months(current_date, Val(expire_in_months)))
        ELSE IF ~IsNone(expire_in_trading_days)
        THEN IsoOf(add_trading_days_weekends_only(current_date, Val(expire_in_trading_days)))
        ELSE IF ~IsNone(expire_in_natural_days)
        THEN IsoOf(add_natural_days(current_date, Val(expire_in_natural_days)))
        ELSE Return(None)

----------------------------------------------------------------------------
(* schema.InquiryQuote and QuoteNormalizer *)

\* The fields class InquiryQuote declares
InquiryQuoteFields ==
    {"contract_code", "call_put", "buy_sell", "strike", "strike_offset",
     "underlying_price", "expire_date"}

\* pattern ^[A-Z]+[0-9]{3,4}$
MatchesContractCodePattern(s) ==
    \E k \in 3..4 :
        /\ Len(s) > k
        /\ \A j \in 1..(Len(s) - k) : IsUpper(s[j])
        /\ \A j \in (Len(s) - k + 1)..Len(s) : IsDigit(s[j])

\* pattern ^[0-9]{4}-[0-9]{2}-[0-9]{2}$
MatchesExpireDatePattern(s) ==
    /\ Len(s) = 10
    /\ \A j \in {1, 2, 3, 4, 6, 7, 9, 10} : IsDigit(s[j])
    /\ s[5] = "-"
    /\ s[8] = "-"

\* InquiryQuote(**kwargs): the validation of the model class.  extra="forbid"
\* rejects a keyword that is no declared field; each declared field is
\* validated against its constraint; an omitted field takes its default, None.
InquiryQuote(kwargs) ==
    LET given(f) == IF f \in DOMAIN kwargs THEN kwargs[f] ELSE None
        ok(f, P(_)) == IsNone(given(f)) \/ P(Val(given(f)))
    IN  IF /\ DOMAIN kwargs \subseteq InquiryQuoteFields
           /\ ok("contract_code", MatchesContractCodePattern)
           /\ ok("call_put", LAMBDA v : v \in {1, 2})
           /\ ok("buy_sell", LAMBDA v : v \in {1, -1})
           /\ ok("strike", LAMBDA v : v > 0)
           /\ ok("expire_date", MatchesExpireDatePattern)
        THEN Return([f \in InquiryQuoteFields |-> given(f)])
        ELSE Raise("ValidationError")

normalize_quote(a) ==
    LET contract == build_contract_code_from_parts(
                        a.current_date, a.product_code, a.contract_month, a.contract_year)
        cp  == a.call_put
        bs  == a.buy_sell
        s   == a.strike
        so  == IF ~IsNone(s) THEN None ELSE a.strike_offset
        exp == infer_expire_date(a.current_date, a.expire_date, a.expire_in_months,
                                 a.expire_in_natural_days, a.expire_in_trading_days)
    IN  IF Raised(contract) THEN contract
        ELSE IF Raised(exp) THEN exp
        ELSE InquiryQuote([contract_code    |-> contract.value,
                           call_put         |-> cp,
                           buy_sell         |-> bs,
                           strike           |-> s,
                           strike_offset    |-> so,
                           underlying_price |-> a.underlying_price,
                           expire_date      |-> exp.value,
                           quantity         |-> a.quantity])

----------------------------------------------------------------------------
(* ProductAliasResolver.  A score is an integer count of thousandths, so   *)
(* 100.0 is 100000 and round(score, 2) rounds to a multiple of 10.         *)

\* The CJK ideographs (\u4e00-\u9fff) of the model, by code point
CJKIdeographs ==
    { "U+70ED", "U+5377", "U+8F67", "U+677F", "U+87BA", "U+7EB9", "U+83DC", "U+6CB9",
      "U+5408", "U+7EA6", "U+62A5", "U+4EF7", "U+660E", "U+5929", "U+6708", "U+65E5",
      "U+53F7" }

IsCJK(c) == c \in CJKIdeographs

\* unicodedata.normalize("NFKC", c) for one character: the full-width forms
\* U+FF28, U+FF23, U+FF10, U+FF0C and the ideographic space U+3000 fold to
\* ASCII, every other character of the model is its own normal form
NFKCChar(c) ==
    CASE c = "U+FF28" -> "H"
      [] c = "U+FF23" -> "C"
      [] c = "U+FF10" -> "0"
      [] c = "U+FF0C" -> ","
      [] c = "U+3000" -> " "
      [] OTHER -> c

NFKC(value) == [i \in DOMAIN value |-> NFKCChar(value[i])]

\* re.sub(r"[^A-Z0-9\u4e00-\u9fff]+", "", normalized)
_normalize_product_text(value) ==
    SelectSeq(upper(NFKC(value)), LAMBDA c : IsUpper(c) \/ IsDigit(c) \/ IsCJK(c))

\* generated_product_aliases.PRODUCT_ALIAS_TO_CODE, in insertion order, as
\* <<alias, mapped code>>: two names of HC, a name of RB whose mapped code
\* still needs strip().upper(), a name of OI, and an alias that normalizes to
\* the empty string
PRODUCT_ALIAS_TO_CODE ==
    << << <<"U+70ED", "U+5377">>, <<"H", "C">> >>,
       << <<"U+70ED", "U+8F67", "U+5377", "U+677F">>, <<"H", "C">> >>,
       << <<"U+87BA", "U+7EB9">>, <<" ", "r", "b">> >>,
       << <<"U+83DC", "U+6CB9">>, <<"O", "I">> >>,
       << <<"-">>, <<"O", "I">> >> >>

\* The entries (alias, normalized alias, canonical code)
_build_product_alias_entries ==
    [ i \in DOMAIN PRODUCT_ALIAS_TO_CODE |->
        [ alias            |-> PRODUCT_ALIAS_TO_CODE[i][1],
          normalized_alias |-> _normalize_product_text(PRODUCT_ALIAS_TO_CODE[i][1]),
          code             |-> upper(strip(PRODUCT_ALIAS_TO_CODE[i][2])) ] ]

_PRODUCT_ALIAS_ENTRIES == _build_product_alias_entries

_KNOWN_PRODUCT_CODES == { _PRODUCT_ALIAS_ENTRIES[i].code : i \in DOMAIN _PRODUCT_ALIAS_ENTRIES }

\* The module-level tables as one value
StaticTables ==
    [ _PRODUCT_ALIAS_ENTRIES |-> _PRODUCT_ALIAS_ENTRIES,
      _KNOWN_PRODUCT_CODES   |-> _KNOWN_PRODUCT_CODES,
      PRODUCT_SUFFIX_FORMAT  |-> PRODUCT_SUFFIX_FORMAT ]

\* One point of score, in thousandths
ScoreUnit == 1000

Max(a, b) == IF a >= b THEN a ELSE b

\* round(x, 2): to the nearest hundredth, a tie to the even hundredth
Round2(x) ==
    LET r == x % 10
        q == x \div 10
    IN  IF r < 5 THEN 10 * q
        ELSE IF r > 5 THEN 10 * (q + 1)
        ELSE IF q % 2 = 0 THEN 10 * q ELSE 10 * (q + 1)

ProductCandidate(product_code, matched_alias, score) ==
    [ product_code |-> product_code, matched_alias |-> matched_alias, score |-> score ]

\* candidates[product_code] = value, on a dict carried as a function
DictSet(d, key, value) ==
    [ k \in (DOMAIN d) \cup {key} |-> IF k = key THEN value ELSE d[k] ]

\* _upsert_candidate replacing the stored candidate whatever its score
_upsert_candidate_Always(candidates, product_code, matched_alias, score) ==
    LET bounded_score == Max(0, Min(100 * ScoreUnit, score))
    IN  DictSet(candidates, product_code,
                ProductCandidate(product_code, matched_alias, Round2(bounded_score)))

\* The dict after the call: the new comparison is between the unrounded
\* bounded score and the stored, rounded one
_upsert_candidate(candidates, product_code, matched_alias, score) ==
    LET bounded_score == Max(0, Min(100 * ScoreUnit, score))
    IN  IF product_code \notin DOMAIN candidates
           \/ bounded_score > candidates[product_code].score
        THEN DictSet(candidates, product_code,
                     ProductCandidate(product_code, matched_alias, Round2(bounded_score)))
        ELSE candidates

\* normalized_alias in normalized_query
IsSubstring(a, b) ==
    \E i \in 0..(Len(b) - Len(a)) : SubSeq(b, i + 1, i + Len(a)) = a

\* The loop of lines 73-75 over entries[i..]
RECURSIVE AliasPass(_, _, _, _)
AliasPass(entries, i, normalized_query, candidates) ==
    IF i > Len(entries) THEN candidates
    ELSE LET e == entries[i]
         IN  AliasPass(entries, i + 1, normalized_query,
                 IF e.normalized_alias # <<>> /\ IsSubstring(e.normalized_alias, normalized_query)
                 THEN _upsert_candidate(candidates, e.code, e.alias, 100 * ScoreUnit)
                 ELSE candidates)

\* The length of the run of [A-Z] of s that starts at position i
RECURSIVE UpperRun(_, _)
UpperRun(s, i) == IF i <= Len(s) /\ IsUpper(s[i]) THEN 1 + UpperRun(s, i + 1) ELSE 0

\* re.findall(r"[A-Z]{1,6}", s) from position i on: the scan takes up to six
\* letters at a time and goes on behind what it took
RECURSIVE FindAllAlpha(_, _)
FindAllAlpha(s, i) ==
    IF i > Len(s) THEN <<>>
    ELSE IF ~IsUpper(s[i]) THEN FindAllAlpha(s, i + 1)
    ELSE LET n == Min(6, UpperRun(s, i))
         IN  <<SubSeq(s, i, i + n - 1)>> \o FindAllAlpha(s, i + n)

\* The loop of lines 78-80 over tokens[i..]
RECURSIVE TokenPass(_, _, _, _)
TokenPass(known, tokens, i, candidates) ==
    IF i > Len(tokens) THEN candidates
    ELSE TokenPass(known, tokens, i + 1,
             IF tokens[i] \in known
             THEN _upsert_candidate(candidates, tokens[i], tokens[i], 100 * ScoreUnit)
             ELSE candidates)

\* re.sub(r"[0-9]+", " ", s): every run of digits becomes one space
RECURSIVE DigitRunsToSpace(_, _)
DigitRunsToSpace(s, i) ==
    IF i > Len(s) THEN <<>>
    ELSE IF IsDigit(s[i]) THEN <<" ">> \o DigitRunsToSpace(s, i + DigitRun(s, i))
    ELSE <<s[i]>> \o DigitRunsToSpace(s, i + 1)

\* The query handed to the fuzzy matcher (line 83)
FuzzyQuery(query) == upper(strip(DigitRunsToSpace(NFKC(query), 1)))

\* The indexes S of the choices by score descending, equal scores in the
\* order of the choices
RECURSIVE ExtractOrder(_, _)
ExtractOrder(scores, S) ==
    IF S = {} THEN <<>>
    ELSE LET m == CHOOSE i \in S :
                      \A j \in S : scores[i] > scores[j] \/ (scores[i] = scores[j] /\ i <= j)
         IN  <<m>> \o ExtractOrder(scores, S \ {m})

\* rapidfuzz.process.extract without its limit: every choice, best first
rapidfuzz_process_extract_NoLimit(scores, choices, limit) ==
    LET order == ExtractOrder(scores, DOMAIN choices)
    IN  [ k \in 1..Len(order) |->
            [ alias |-> choices[order[k]], score |-> scores[order[k]] ] ]

\* rapidfuzz.process.extract(fuzzy_query, choices, scorer=WRatio, limit=limit):
\* the `limit` best choices, best first.  scores[i] stands for
\* WRatio(fuzzy_query, choices[i]), which is any float in [0, 100].
rapidfuzz_process_extract(scores, choices, limit) ==
    LET order == ExtractOrder(scores, DOMAIN choices)
    IN  [ k \in 1..Min(limit, Len(order)) |->
            [ alias |-> choices[order[k]], score |-> scores[order[k]] ] ]

\* _PRODUCT_ALIAS_TO_CODE[alias]
AliasToCode(entries, alias) ==
    entries[CHOOSE i \in DOMAIN entries : entries[i].alias = alias].code

\* The loop of lines 86-100 over results[i..]
RECURSIVE FuzzyPass(_, _, _, _)
FuzzyPass(entries, results, i, candidates) ==
    IF i > Len(results) THEN candidates
    ELSE FuzzyPass(entries, results, i + 1,
             IF results[i].score < 60 * ScoreUnit THEN candidates
             ELSE _upsert_candidate(candidates, AliasToCode(entries, results[i].alias),
                                    results[i].alias, results[i].score))

\* Lines 83-100
FuzzyStage(entries, query, top_k, scores, candidates) ==
    IF FuzzyQuery(query) # <<>>
    THEN LET limit   == Min(Len(entries), Max(top_k * 5, 10))
             choices == [ i \in DOMAIN entries |-> entries[i].alias ]
         IN  FuzzyPass(entries, rapidfuzz_process_extract(scores, choices, limit), 1, candidates)
    ELSE candidates

\* The position of an uppercase letter in the alphabet
CharOrd(c) == CHOOSE i \in DOMAIN UpperCase : UpperCase[i] = c

\* a < b for two product codes, as Python compares str
RECURSIVE CodeLess(_, _)
CodeLess(a, b) ==
    IF b = <<>> THEN FALSE
    ELSE IF a = <<>> THEN TRUE
    ELSE IF Head(a) # Head(b) THEN CharOrd(Head(a)) < CharOrd(Head(b))
    ELSE CodeLess(Tail(a), Tail(b))

\* The sort key of line 102 with the score left out
RankBefore_CodeOnly(a, b) == CodeLess(a.product_code, b.product_code)

\* (-a.score, a.product_code) < (-b.score, b.product_code)
RankBefore(a, b) ==
    \/ a.score > b.score
    \/ (a.score = b.score /\ CodeLess(a.product_code, b.product_code))

\* sorted(S, key=lambda item: (-item.score, item.product_code))
RECURSIVE Sorted(_)
Sorted(S) ==
    IF S = {} THEN <<>>
    ELSE LET m == CHOOSE x \in S : \A y \in S : x = y \/ RankBefore(x, y)
         IN  <<m>> \o Sorted(S \ {m})

\* Lines 102-103
Ranked(candidates, top_k) ==
    LET ranked == Sorted({ candidates[c] : c \in DOMAIN candidates })
    IN  SubSeq(ranked, 1, Min(top_k, Len(ranked)))

\* The dict `candidates` when line 102 is reached
MergedCandidates(static, query, top_k, scores) ==
    LET normalized_query == _normalize_product_text(query)
        c1 == AliasPass(static._PRODUCT_ALIAS_ENTRIES, 1, normalized_query, <<>>)
        c2 == TokenPass(static._KNOWN_PRODUCT_CODES, FindAllAlpha(normalized_query, 1), 1, c1)
    IN  FuzzyStage(static._PRODUCT_ALIAS_ENTRIES, query, top_k, scores, c2)

\* find_product_candidates without the return for an empty normalized query
find_product_candidates_NoEmptyCheck(query, top_k, scores) ==
    IF top_k <= 0 THEN <<>>
    ELSE Ranked(MergedCandidates(StaticTables, query, top_k, scores), top_k)

find_product_candidates(query, top_k, scores) ==
    IF top_k <= 0 THEN <<>>
    ELSE IF _normalize_product_text(query) = <<>> THEN <<>>
    ELSE Ranked(MergedCandidates(StaticTables, query, top_k, scores), top_k)

\* The dict that line 70 creates for a call: one dict shared by all calls
LocalCandidates_Shared(self) == 1

\* The dict that line 70 creates for the call `self`: a new one for each call
LocalCandidates(self) == self

----------------------------------------------------------------------------
(* AsyncHZConnector.  A session and a lock are named by a number, 0 for    *)
(* the lock that __init__ creates and n >= 1 for the n-th session and the  *)
(* lock created with it.  _token and _refresh_token are TRUE when set,     *)
(* _token_expires_at is "none", or "future" or "past" as it compares with  *)
(* datetime.now().  An operator                                            *)
(* below takes the state w of the connector and its callers (the variables *)
(* pc, frames, ret, conn, locks as the fields of a record) and gives the   *)
(* state that the code leaves.                                             *)

\* Lines 42-47: the fields after __init__
AsyncHZConnector ==
    [ _session          |-> 0,
      closed            |-> FALSE,
      _token            |-> FALSE,
      _refresh_token    |-> FALSE,
      _token_expires_at |-> "none",
      _token_lock       |-> 0 ]

\* asyncio.Lock(): unlocked, nobody waiting
asyncio_Lock == [ locked |-> FALSE, waiters |-> <<>> ]

\* A session that is None or closed is replaced, and with it the lock
_ensure_session(w) ==
    IF w.conn._session = 0 \/ w.conn.closed
    THEN LET n == w.conn._session + 1
         IN  [w EXCEPT !.conn._session = n,
                       !.conn.closed = FALSE,
                       !.conn._token_lock = n,
                       !.locks = DictSet(w.locks, n, asyncio_Lock)]
    ELSE w

\* The end of `async with lock`: Lock.release()
Release(w, lock) == [w EXCEPT !.locks[lock].locked = FALSE]

\* The locals of a call that has not started or is over; no 401 of it is
\* waiting for a login or refresh
NoLocals ==
    [ attempt |-> 0, token |-> "none", lock |-> 0, kind |-> "none", session |-> 0,
      fresh |-> TRUE ]

\* The call of caller t ends with the outcome, and its locals with it
Finish(w, t, outcome) ==
    [w EXCEPT !.pc[t] = "done",
              !.ret[t] = outcome,
              !.frames[t] = [ f \in DOMAIN @ |-> IF f \in DOMAIN NoLocals THEN NoLocals[f] ELSE @[f] ]]

\* Lines 241-248: the request is started on the session of the connector; a
\* closed session refuses it with a RuntimeError, which is no ClientError
SendRequest(w, t) ==
    IF w.conn.closed THEN Finish(w, t, Raise("RuntimeError"))
    ELSE [w EXCEPT !.pc[t] = "request",
                   !.frames[t].session = w.conn._session,
                   !.frames[t].sent = @ + 1]

\* _login_async and _refresh_token_async up to their POST (lines 102-119,
\* 151-170); kind is "refresh", "login" or, for the login of line 208,
\* "relogin"
StartAuth(w, t, kind) ==
    LET w1 == _ensure_session(w)
    IN  [w1 EXCEPT !.pc[t] = "auth",
                   !.frames[t].kind = kind,
                   !.frames[t].session = w1.conn._session]

\* Line 196
TokenValid(c) == c._token /\ c._token_expires_at = "future"

\* Lines 197 and 212: the stored token becomes the local `token` of caller
\* t, "new" if a login or refresh has completed since the last 401 of the
\* caller and "old" if none has
TakeToken(w, t) ==
    [w EXCEPT !.frames[t].token = IF w.frames[t].fresh THEN "new" ELSE "old"]

\* _ensure_token from line 195 on, the lock taken, up to the next suspension
AfterAcquire(w, t) ==
    IF TokenValid(w.conn)
    THEN SendRequest(Release(TakeToken(w, t), w.frames[t].lock), t)
    ELSE StartAuth(w, t, IF w.conn._refresh_token THEN "refresh" ELSE "login")

\* Line 232: _ensure_token enters `async with self._token_lock`.
\* Lock.acquire() takes a lock that is unlocked and has no waiters, else the
\* caller joins the waiters.
EnsureToken(w, t) ==
    LET lock == w.conn._token_lock
        w1   == [w EXCEPT !.frames[t].lock = lock]
    IN  IF ~w.locks[lock].locked /\ w.locks[lock].waiters = <<>>
        THEN AfterAcquire([w1 EXCEPT !.locks[lock].locked = TRUE], t)
        ELSE [w1 EXCEPT !.locks[lock].waiters = Append(@, t), !.pc[t] = "wait"]

\* Lines 256-258 and 273-274 going on at once instead of marking the token
\* expired
Continue_NoExpiry(w, t, outcome) ==
    EnsureToken([w EXCEPT !.frames[t].attempt = @ + 1,
                          !.frames[t].last = outcome,
                          !.frames[t].fresh = FALSE], t)

\* Lines 256-258 and 273-274: the token is marked expired and the loop goes
\* on.  From here on no login or refresh has completed since the last 401.
Continue(w, t, outcome) ==
    EnsureToken([w EXCEPT !.conn._token_expires_at = "past",
                          !.frames[t].attempt = @ + 1,
                          !.frames[t].last = outcome,
                          !.frames[t].fresh = FALSE], t)

\* What the token endpoint may answer: a failure (an HTTP or connection
\* error, a code other than 0, no access_token), or a token with or without
\* a refresh_token
AuthOutcomes ==
    { [ ok |-> FALSE, refresh_token |-> FALSE ] } \cup [ ok : {TRUE}, refresh_token : BOOLEAN ]

\* Lines 131-140 and 182-188: the token is stored with its expiry, which
\* lies ahead (an expires_in within the 120 s of margin is an expiry that
\* has passed at the next look, which is TokenExpires below), and a login
\* or refresh has now completed since the last 401 of every caller
StoreToken(w, kind, o) ==
    [w EXCEPT !.conn._token = TRUE,
              !.conn._refresh_token = IF kind = "refresh" THEN o.refresh_token \/ @
                                      ELSE o.refresh_token,
              !.conn._token_expires_at = "future",
              !.frames = [ u \in DOMAIN w.frames |-> [w.frames[u] EXCEPT !.fresh = TRUE] ]]

\* What the endpoint may answer: a JSON object, HTTP 401, a JSON object with
\* code 401, a ClientError (a lost connection, another HTTP error status, a
\* wrong content type), another error (no JSON object, a timeout)
Outcomes == { "ok", "http401", "biz401", "client_error", "other_error" }

\* A request to the endpoint that may be sent again if attempts remain
Retried == { "http401", "biz401", "client_error" }

\* attempt <= retry: one attempt more than the loop has
HasAttemptsLeft_OneMore(attempt, retry) == attempt <= retry

\* Lines 257, 268, 279: attempt < retry
HasAttemptsLeft(attempt, retry) == attempt < retry

----------------------------------------------------------------------------
(* The calls.  pc holds the names of the calls still to be made; ret and   *)
(* ret2 hold their outcomes.                                               *)

Optional(S) == {None} \cup {Some(v) : v \in S}

\* The characters that are no letter, digit or white space used in inputs
MING == "U+660E"

TIAN == "U+5929"

(* QuoteNormalizer: one call of normalize_quote *)

QuoteCurrentDates == { <<2026, 2, 12>>, <<2095, 6, 1>> }

QuoteExpireDates ==
    { None,
      Some(<<"2","0","2","6","-","0","4","-","1","5">>),
      Some(<<"2", YUE, "3", "0", RI>>) }

QuoteProductCodes == { None, Some(<<"h","c">>), Some(<<"o","i">>) }

QuoteArgs ==
    [ current_date           : QuoteCurrentDates,
      call_put               : {None, Some(1)},
      buy_sell               : {None, Some(-1)},
      strike                 : {None, Some(3500), Some(0)},
      strike_offset          : {None, Some(-30)},
      underlying_price       : {None, Some(3400)},
      expire_date            : QuoteExpireDates,
      expire_in_months       : {None, Some(2)},
      expire_in_natural_days : {None, Some(20)},
      expire_in_trading_days : {None, Some(2)},
      product_code           : QuoteProductCodes,
      contract_month         : {None, Some(5)},
      contract_year          : {None, Some(3)},
      quantity               : {None, Some(30000)} ]

Init ==
    /\ pc = {"normalize_quote"}
    /\ args \in QuoteArgs
    /\ ret = Pending
    /\ ret2 = Pending
    /\ tables = StaticTables
    /\ frames = <<>>
    /\ conn = None
    /\ locks = <<>>

NormalizeQuote ==
    /\ "normalize_quote" \in pc
    /\ ret' = normalize_quote(args)
    /\ pc' = pc \ {"normalize_quote"}
    /\ UNCHANGED <<args, ret2, tables, frames, conn, locks>>

Next == NormalizeQuote

Spec == Init /\ [][Next]_vars

(* ExpiryResolver: one call of infer_expire_date *)

ExpiryCurrentDates == { <<2026, 2, 12>>, <<2026, 11, 20>>, <<2024, 1, 31>>, <<2027, 12, 31>> }

\* Expiry strings that name a calendar date
ParseableExpireDates ==
    { <<"4", YUE, "1", "5", RI>>,
      <<"1", YUE, "5", RI>>,
      <<" ", "2", " ", YUE, " ", "1", "2", " ", HAO, " ">>,
      <<"2","0","2","6","-","0","4","-","1","5">>,
      <<"2","0","2","6","/","4","/","1","5">> }

\* Expiry strings that name no calendar date: a day that does not exist, a
\* month that does not exist, no date at all
UnparseableExpireDates ==
    { <<"2", YUE, "3", "0", RI>>,
      <<"1", "3", YUE, "1", RI>>,
      <<"0", YUE, "0", RI>>,
      <<"2","0","2","6","-","0","2","-","3","0">>,
      <<MING, TIAN>> }

MaxHalfMonths == 4

MaxTradingDays == 5

ExpiryArgs ==
    [ current_date           : ExpiryCurrentDates,
      explicit_expire_date   : {None, Some(<<>>)}
                                 \cup {Some(e) : e \in ParseableExpireDates \cup UnparseableExpireDates},
      expire_in_months       : Optional((-MaxHalfMonths)..MaxHalfMonths),
      expire_in_natural_days : Optional({-5, 0, 20}),
      expire_in_trading_days : Optional(0..MaxTradingDays) ]

InitExpiry ==
    /\ pc = {"infer_expire_date"}
    /\ args \in ExpiryArgs
    /\ ret = Pending
    /\ ret2 = Pending
    /\ tables = StaticTables
    /\ frames = <<>>
    /\ conn = None
    /\ locks = <<>>

InferExpireDate ==
    /\ "infer_expire_date" \in pc
    /\ ret' = infer_expire_date(args.current_date, args.explicit_expire_date,
                                args.expire_in_months, args.expire_in_natural_days,
                                args.expire_in_trading_days)
    /\ pc' = pc \ {"infer_expire_date"}
    /\ UNCHANGED <<args, ret2, tables, frames, conn, locks>>

NextExpiry == InferExpireDate

SpecExpiry == InitExpiry /\ [][NextExpiry]_vars

(* ExpiryResolver: one call of _parse_expire_date_str on a month-day string *)

MonthDayCurrentDates ==
    { <<2026, 2, 12>>, <<2024, 2, 29>>, <<2023, 3, 1>>, <<2024, 3, 1>>,
      <<2026, 1, 1>>, <<2026, 12, 31>>, <<9999, 6, 15>>, <<9999, 12, 31>> }

MaxMonthText == 13

MaxDayText == 32

\* What may follow the day digits: nothing, either day sign, white space
DaySigns == { <<>>, <<RI>>, <<" ", HAO, " ">> }

\* The month-day string of a month, a day, a digit width and a day sign
MonthDayText(month, day, width, sign) ==
    Format(month, width) \o <<YUE>> \o Format(day, width) \o sign

MonthDayArgs ==
    [ current_date : MonthDayCurrentDates,
      month        : 0..MaxMonthText,
      day          : 0..MaxDayText,
      width        : 1..2,
      sign         : DaySigns ]

InitMonthDay ==
    /\ pc = {"_parse_expire_date_str"}
    /\ args \in MonthDayArgs
    /\ ret = Pending
    /\ ret2 = Pending
    /\ tables = StaticTables
    /\ frames = <<>>
    /\ conn = None
    /\ locks = <<>>

ParseExpireDateStr ==
    /\ "_parse_expire_date_str" \in pc
    /\ ret' = _parse_expire_date_str(
                  MonthDayText(args.month, args.day, args.width, args.sign),
                  args.current_date)
    /\ pc' = pc \ {"_parse_expire_date_str"}
    /\ UNCHANGED <<args, ret2, tables, frames, conn, locks>>

NextMonthDay == ParseExpireDateStr

SpecMonthDay == InitMonthDay /\ [][NextMonthDay]_vars

(* ContractCodeResolver: the same product, month and year given to the     *)
(* explicit-parts path and, written as one token, to the free-text path    *)

ContractCurrentDates ==
    { <<2026, 2, 12>>, <<2026, 11, 30>>, <<2029, 1, 5>>, <<2095, 6, 1>>, <<2099, 12, 31>> }

ContractProductCodes ==
    { None,
      Some(<<>>),
      Some(<<"h","c">>),
      Some(<<"H","C">>),
      Some(<<"o","i">>),
      Some(<<" ","R","b"," ">>),
      Some(<<"h","1">>),
      Some(<<"a","b","c","d","e","f">>),
      Some(<<"a","b","c","d","e","f","g">>) }

MaxMonthArg == 13

ContractYears == Optional({-1, 0, 3, 5, 6, 9, 10, 26, 99, 100, 2028})

\* product + YY + MM (or product + MM when no year is given) as one token
ContractToken(product_code, contract_month, contract_year) ==
    IF IsNone(product_code) THEN <<>>
    ELSE IF IsNone(contract_month) \/ Val(contract_month) \notin 0..99 THEN Val(product_code)
    ELSE IF IsNone(contract_year) \/ Val(contract_year) \notin 0..99
    THEN Val(product_code) \o Format(Val(contract_month), 2)
    ELSE Val(product_code) \o Format(Val(contract_year), 2) \o Format(Val(contract_month), 2)

ContractArgs ==
    { [ current_date   |-> c,
        product_code   |-> p,
        contract_month |-> m,
        contract_year  |-> y,
        text           |-> ContractToken(p, m, y) ] :
      c \in ContractCurrentDates, p \in ContractProductCodes,
      m \in Optional((-1)..MaxMonthArg), y \in ContractYears }

InitContract ==
    /\ pc = {"build_contract_code_from_parts", "infer_contract_code"}
    /\ args \in ContractArgs
    /\ ret = Pending
    /\ ret2 = Pending
    /\ tables = StaticTables
    /\ frames = <<>>
    /\ conn = None
    /\ locks = <<>>

BuildContractCodeFromParts ==
    /\ "build_contract_code_from_parts" \in pc
    /\ ret' = build_contract_code_from_parts(args.current_date, args.product_code,
                                             args.contract_month, args.contract_year)
    /\ pc' = pc \ {"build_contract_code_from_parts"}
    /\ UNCHANGED <<args, ret2, tables, frames, conn, locks>>

InferContractCode ==
    /\ "infer_contract_code" \in pc
    /\ ret2' = Return(infer_contract_code(args.text, args.current_date))
    /\ pc' = pc \ {"infer_contract_code"}
    /\ UNCHANGED <<args, ret, tables, frames, conn, locks>>

NextContract == BuildContractCodeFromParts \/ InferContractCode

SpecContract == InitContract /\ [][NextContract]_vars

(* normalize_contract_code on free text, and again on its own result *)

TextCurrentDates == { <<2026, 2, 12>>, <<2099, 12, 31>> }

TextAlphabet == {"h", "C", "1", "2", " "}

MaxTextLen == 6

SampleTexts ==
    { <<"h","c","0","1">>,
      <<"h","c","2","6","1","0">>,
      <<"h","c","2","6","1","3">>,
      <<"a","b","c","d","e","f","1","0">>,
      <<"a","b","c","d","e","f","g","1","0">>,
      <<"h","c","2","6","1","0","5">>,
      <<"h","c","2","6","1","3"," ","r","b","0","5">>,
      <<"U+70ED", "U+5377", "h", "c", "1", "0", "U+5408", "U+7EA6">> }

Texts == UNION { [1..n -> TextAlphabet] : n \in 0..MaxTextLen } \cup SampleTexts

InitText ==
    /\ pc = {"normalize_contract_code"}
    /\ args \in [ current_date : TextCurrentDates, value : Optional(Texts) ]
    /\ ret = Pending
    /\ ret2 = Pending
    /\ tables = StaticTables
    /\ frames = <<>>
    /\ conn = None
    /\ locks = <<>>

NormalizeContractCode ==
    /\ "normalize_contract_code" \in pc
    /\ ret' = Return(normalize_contract_code(args.value, args.current_date))
    /\ pc' = {"normalize_contract_code again"}
    /\ UNCHANGED <<args, ret2, tables, frames, conn, locks>>

\* normalize_contract_code applied to the result of the first call
NormalizeContractCodeAgain ==
    /\ "normalize_contract_code again" \in pc
    /\ ret2' = Return(normalize_contract_code(ret.value, args.current_date))
    /\ pc' = {}
    /\ UNCHANGED <<args, ret, tables, frames, conn, locks>>

NextText == NormalizeContractCode \/ NormalizeContractCodeAgain

SpecText == InitText /\ [][NextText]_vars

(* infer_contract_code on free text with several product tokens *)

InferCurrentDates == { <<2026, 2, 12>>, <<2026, 11, 30>>, <<2099, 12, 31>> }

\* The pieces the texts are put together from
InferPieces ==
    { <<"h","c">>,
      <<"R","a","b","c","d">>,
      <<"2","6">>,
      <<"1","0">>,
      <<"1","3">>,
      <<" ">>,
      <<MING>>,
      <<"h","c","2","6","1","3"," ">> }

MaxPieces == 4

\* The texts of at most n pieces
RECURSIVE PieceTexts(_)
PieceTexts(n) ==
    IF n = 0 THEN { <<>> }
    ELSE PieceTexts(n - 1) \cup { p \o t : p \in InferPieces, t \in PieceTexts(n - 1) }

InferTexts == PieceTexts(MaxPieces)

InitInfer ==
    /\ pc = {"infer_contract_code"}
    /\ args \in [ current_date : InferCurrentDates, text : InferTexts ]
    /\ ret = Pending
    /\ ret2 = Pending
    /\ tables = StaticTables
    /\ frames = <<>>
    /\ conn = None
    /\ locks = <<>>

NextInfer == InferContractCode

SpecInfer == InitInfer /\ [][NextInfer]_vars

(* DateArithmetic: one call of add_months and one of                       *)
(* add_trading_days_weekends_only on the same start date                   *)

\* Monday 2026-02-09 to Sunday 2026-02-15, month ends, a leap day, and the
\* first and the last months of datetime.date
DateStarts ==
    { <<2026, 2, 9>>, <<2026, 2, 10>>, <<2026, 2, 11>>, <<2026, 2, 12>>,
      <<2026, 2, 13>>, <<2026, 2, 14>>, <<2026, 2, 15>>,
      <<2026, 1, 31>>, <<2025, 12, 31>>, <<2024, 2, 29>>, <<2026, 3, 31>>,
      <<1, 1, 15>>, <<9999, 11, 30>>, <<9999, 12, 15>> }

MaxWholeMonths == 14

MaxDaysArg == 11

\* months as a count of half months: every whole number of months up to the
\* bound, and a few halves
MonthsArgs == { 2 * n : n \in (-MaxWholeMonths)..MaxWholeMonths } \cup {-3, -1, 1, 3}

DateArgs ==
    [ start  : DateStarts,
      months : MonthsArgs,
      days   : (-2)..MaxDaysArg ]

InitDates ==
    /\ pc = {"add_months", "add_trading_days_weekends_only"}
    /\ args \in DateArgs
    /\ ret = Pending
    /\ ret2 = Pending
    /\ tables = StaticTables
    /\ frames = <<>>
    /\ conn = None
    /\ locks = <<>>

AddMonths ==
    /\ "add_months" \in pc
    /\ ret' = add_months(args.start, args.months)
    /\ pc' = pc \ {"add_months"}
    /\ UNCHANGED <<args, ret2, tables, frames, conn, locks>>

AddTradingDaysWeekendsOnly ==
    /\ "add_trading_days_weekends_only" \in pc
    /\ ret2' = add_trading_days_weekends_only(args.start, args.days)
    /\ pc' = pc \ {"add_trading_days_weekends_only"}
    /\ UNCHANGED <<args, ret, tables, frames, conn, locks>>

NextDates == AddMonths \/ AddTradingDaysWeekendsOnly

SpecDates == InitDates /\ [][NextDates]_vars

(* ProductAliasResolver: one call of find_product_candidates.  The scores  *)
(* of the fuzzy matcher are an input of the call, one per alias.           *)

CandidateQueries ==
    { <<"U+70ED", "U+5377", "0", "5", "U+5408", "U+7EA6", "U+FF0C", "U+62A5", "U+4EF7">>,
      <<"U+70ED", "U+8F67", "U+5377", "U+677F", "0", "5", "U+5408", "U+7EA6">>,
      <<"r", "b", "1", "0", " ", "U+62A5", "U+4EF7">>,
      <<"U+87BA", "U+7EB9", "U+70ED", "U+5377">>,
      <<"U+83DC", "U+6CB9", "r", "b", "U+70ED", "U+5377">>,
      <<"a", "b", "c", "d", "e", "f", "h", "c">>,
      <<"h", "c", " ", "r", "b">>,
      <<"U+FF28", "U+FF23">>,
      <<"0", "5">>,
      <<>>,
      <<"U+FF0C", "U+FF0C">>,
      <<" ", "-", " ">>,
      <<"U+00E9">> }

MaxTopK == 3

\* What WRatio may give: below the threshold of 60, two values less than
\* 0.005 apart that round down to the same hundredth, a value that rounds up
\* to 100.0
FuzzyScores == { 59994, 85712, 85714, 99996 }

CandidateArgs ==
    [ query  : CandidateQueries,
      top_k  : (-1)..MaxTopK,
      scores : [ DOMAIN PRODUCT_ALIAS_TO_CODE -> FuzzyScores ] ]

InitCandidates ==
    /\ pc = {"find_product_candidates"}
    /\ args \in CandidateArgs
    /\ ret = Pending
    /\ ret2 = Pending
    /\ tables = StaticTables
    /\ frames = <<>>
    /\ conn = None
    /\ locks = <<>>

\* The whole call; frames keeps the dict `candidates` as it is at line 102
FindProductCandidates ==
    /\ "find_product_candidates" \in pc
    /\ ret' = Return(find_product_candidates(args.query, args.top_k, args.scores))
    /\ frames' = IF args.top_k <= 0 \/ _normalize_product_text(args.query) = <<>>
                 THEN frames
                 ELSE <<MergedCandidates(tables, args.query, args.top_k, args.scores)>>
    /\ pc' = pc \ {"find_product_candidates"}
    /\ UNCHANGED <<args, ret2, tables, conn, locks>>

NextCandidates == FindProductCandidates

SpecCandidates == InitCandidates /\ [][NextCandidates]_vars

(* ProductAliasResolver with an alias table of more than 10 entries, so    *)
(* that the window of the fuzzy matcher is narrower than the table         *)

\* The alias table with seven more products, each under one alias
WindowAliasToCode ==
    PRODUCT_ALIAS_TO_CODE \o
    << << <<"c", "u">>, <<"C", "U">> >>,
       << <<"a", "l">>, <<"A", "L">> >>,
       << <<"z", "n">>, <<"Z", "N">> >>,
       << <<"p", "b">>, <<"P", "B">> >>,
       << <<"n", "i">>, <<"N", "I">> >>,
       << <<"s", "n">>, <<"S", "N">> >>,
       << <<"a", "u">>, <<"A", "U">> >> >>

\* Lines 32-44 on that table
WindowTables ==
    LET entries == [ i \in DOMAIN WindowAliasToCode |->
                       [ alias            |-> WindowAliasToCode[i][1],
                         normalized_alias |-> _normalize_product_text(WindowAliasToCode[i][1]),
                         code             |-> upper(strip(WindowAliasToCode[i][2])) ] ]
    IN  [ _PRODUCT_ALIAS_ENTRIES |-> entries,
          _KNOWN_PRODUCT_CODES   |-> { entries[i].code : i \in DOMAIN entries },
          PRODUCT_SUFFIX_FORMAT  |-> PRODUCT_SUFFIX_FORMAT ]

\* What WRatio may give for the aliases in table order: all below 60, all
\* equal, falling, rising, rising from below 60 to above it
WindowScores ==
    { [ i \in DOMAIN WindowAliasToCode |-> 59994 ],
      [ i \in DOMAIN WindowAliasToCode |-> 85712 ],
      [ i \in DOMAIN WindowAliasToCode |-> 99996 - 3000 * i ],
      [ i \in DOMAIN WindowAliasToCode |-> 58000 + 3000 * i ],
      [ i \in DOMAIN WindowAliasToCode |-> 50000 + 2000 * i ] }

WindowArgs ==
    [ query  : CandidateQueries,
      top_k  : (-1)..MaxTopK,
      scores : WindowScores ]

InitWindow ==
    /\ pc = {"find_product_candidates"}
    /\ args \in WindowArgs
    /\ ret = Pending
    /\ ret2 = Pending
    /\ tables = WindowTables
    /\ frames = <<>>
    /\ conn = None
    /\ locks = <<>>

\* The whole call on the tables of the state; frames keeps the dict
\* `candidates` as it is at line 102
FindProductCandidatesInWindow ==
    /\ "find_product_candidates" \in pc
    /\ IF args.top_k <= 0 \/ _normalize_product_text(args.query) = <<>>
       THEN /\ ret' = Return(<<>>)
            /\ UNCHANGED frames
       ELSE /\ frames' = <<MergedCandidates(tables, args.query, args.top_k, args.scores)>>
            /\ ret' = Return(Ranked(frames'[1], args.top_k))
    /\ pc' = pc \ {"find_product_candidates"}
    /\ UNCHANGED <<args, ret2, tables, conn, locks>>

NextWindow == FindProductCandidatesInWindow

SpecWindow == InitWindow /\ [][NextWindow]_vars

(* Calls in any interleaving: two calls of find_product_candidates, which  *)
(* may interleave pass by pass, one of build_contract_code_from_parts and  *)
(* one of normalize_quote.  pc holds <<call, step>> for the next step of   *)
(* each unfinished call, ret the outcome of each call.                     *)

FrameFindArgs ==
    [ query  : { <<"U+70ED", "U+5377", "0", "5", "U+5408", "U+7EA6", "U+FF0C", "U+62A5", "U+4EF7">>,
                 <<"r", "b", "1", "0", " ", "U+62A5", "U+4EF7">>,
                 <<"U+FF0C", "U+FF0C">> },
      top_k  : { 0, 2 },
      scores : { <<85714, 85714, 59994, 99996, 85712>>,
                 <<59994, 59994, 85712, 59994, 59994>> } ]

FrameBuildArgs ==
    [ current_date   : { <<2026, 2, 12>> },
      product_code   : { Some(<<"h","c">>), Some(<<"o","i">>) },
      contract_month : { Some(5) },
      contract_year  : { None, Some(6) } ]

FrameQuoteArgs ==
    { a \in QuoteArgs :
        /\ a.current_date = <<2026, 2, 12>>
        /\ a.product_code = Some(<<"o","i">>)
        /\ a.contract_month = Some(5)
        /\ a.expire_date = None
        /\ a.expire_in_months = Some(2)
        /\ a.expire_in_natural_days = None
        /\ a.expire_in_trading_days = None
        /\ a.call_put = Some(1)
        /\ a.buy_sell = Some(-1)
        /\ a.underlying_price = None
        /\ a.strike = Some(3500)
        /\ a.strike_offset = None
        /\ a.contract_year = None }

FindCalls == { 1, 2 }

InitFrame ==
    /\ pc = { <<1, "find_product_candidates">>, <<2, "find_product_candidates">>,
              <<3, "build_contract_code_from_parts">>, <<4, "normalize_quote">> }
    /\ args \in [ find : [ FindCalls -> FrameFindArgs ], build : FrameBuildArgs, quote : FrameQuoteArgs ]
    /\ ret = [ call \in 1..4 |-> Pending ]
    /\ ret2 = Pending
    /\ tables = StaticTables
    /\ frames = <<>>
    /\ conn = None
    /\ locks = <<>>

\* Lines 63-70: the two guards, then a new dict `candidates`
FindStart(self) ==
    /\ <<self, "find_product_candidates">> \in pc
    /\ IF \/ args.find[self].top_k <= 0
          \/ _normalize_product_text(args.find[self].query) = <<>>
       THEN /\ ret' = [ret EXCEPT ![self] = Return(<<>>)]
            /\ pc' = pc \ { <<self, "find_product_candidates">> }
            /\ UNCHANGED frames
       ELSE /\ frames' = DictSet(frames, LocalCandidates(self), <<>>)
            /\ pc' = (pc \ { <<self, "find_product_candidates">> }) \cup { <<self, "alias pass">> }
            /\ UNCHANGED ret
    /\ UNCHANGED <<args, ret2, tables, conn, locks>>

\* Lines 73-75
FindAliasPass(self) ==
    /\ <<self, "alias pass">> \in pc
    /\ frames' = DictSet(frames, LocalCandidates(self),
                         AliasPass(tables._PRODUCT_ALIAS_ENTRIES, 1,
                                   _normalize_product_text(args.find[self].query),
                                   frames[LocalCandidates(self)]))
    /\ pc' = (pc \ { <<self, "alias pass">> }) \cup { <<self, "token pass">> }
    /\ UNCHANGED <<args, ret, ret2, tables, conn, locks>>

\* Lines 78-80
FindTokenPass(self) ==
    /\ <<self, "token pass">> \in pc
    /\ frames' = DictSet(frames, LocalCandidates(self),
                         TokenPass(tables._KNOWN_PRODUCT_CODES,
                                   FindAllAlpha(_normalize_product_text(args.find[self].query), 1),
                                   1, frames[LocalCandidates(self)]))
    /\ pc' = (pc \ { <<self, "token pass">> }) \cup { <<self, "fuzzy pass">> }
    /\ UNCHANGED <<args, ret, ret2, tables, conn, locks>>

\* Lines 83-100
FindFuzzyPass(self) ==
    /\ <<self, "fuzzy pass">> \in pc
    /\ frames' = DictSet(frames, LocalCandidates(self),
                         FuzzyStage(tables._PRODUCT_ALIAS_ENTRIES, args.find[self].query,
                                    args.find[self].top_k, args.find[self].scores,
                                    frames[LocalCandidates(self)]))
    /\ pc' = (pc \ { <<self, "fuzzy pass">> }) \cup { <<self, "rank">> }
    /\ UNCHANGED <<args, ret, ret2, tables, conn, locks>>

\* Lines 102-103
FindRank(self) ==
    /\ <<self, "rank">> \in pc
    /\ ret' = [ret EXCEPT ![self] = Return(Ranked(frames[LocalCandidates(self)],
                                                  args.find[self].top_k))]
    /\ pc' = pc \ { <<self, "rank">> }
    /\ UNCHANGED <<args, ret2, tables, frames, conn, locks>>

FrameBuildContractCodeFromParts ==
    /\ <<3, "build_contract_code_from_parts">> \in pc
    /\ ret' = [ret EXCEPT ![3] =
                  build_contract_code_from_parts(args.build.current_date, args.build.product_code,
                                                 args.build.contract_month, args.build.contract_year)]
    /\ pc' = pc \ { <<3, "build_contract_code_from_parts">> }
    /\ UNCHANGED <<args, ret2, tables, frames, conn, locks>>

FrameNormalizeQuote ==
    /\ <<4, "normalize_quote">> \in pc
    /\ ret' = [ret EXCEPT ![4] = normalize_quote(args.quote)]
    /\ pc' = pc \ { <<4, "normalize_quote">> }
    /\ UNCHANGED <<args, ret2, tables, frames, conn, locks>>

NextFrame ==
    \/ \E self \in FindCalls :
           \/ FindStart(self)
           \/ FindAliasPass(self)
           \/ FindTokenPass(self)
           \/ FindFuzzyPass(self)
           \/ FindRank(self)
    \/ FrameBuildContractCodeFromParts
    \/ FrameNormalizeQuote

SpecFrame == InitFrame /\ [][NextFrame]_vars

----------------------------------------------------------------------------
(* AsyncHZConnector: concurrent calls of _make_request_async on one        *)
(* connector, calls of close(), and the passing of time.  pc[t] is where   *)
(* caller t is suspended: "call" before its call, "wait" among the waiters *)
(* of a lock, "auth" with a login or refresh request in flight, "request"  *)
(* with its request to the endpoint in flight, "sleep" in asyncio.sleep,   *)
(* "done" after the call.  frames[t] holds the locals of the call          *)
(* (attempt, token), the lock and the session it uses, the login or        *)
(* refresh it has in flight, and what the properties refer to: the number  *)
(* of requests sent to the endpoint, the outcome of the last of them, and  *)
(* whether a login or refresh has completed since the last 401 (fresh).    *)

Callers == 1..2

MaxRetry == 1

\* close() is called while the connector has made fewer sessions than this
MaxSessions == 2

ConnectorArgs == [ retry : [ Callers -> (-1)..MaxRetry ] ]

InitConnector ==
    /\ pc = [ t \in Callers |-> "call" ]
    /\ args \in ConnectorArgs
    /\ ret = [ t \in Callers |-> Pending ]
    /\ ret2 = Pending
    /\ tables = StaticTables
    /\ frames = [ t \in Callers |->
                    [ f \in DOMAIN NoLocals \cup {"sent", "last"} |->
                        CASE f = "sent" -> 0
                          [] f = "last" -> "none"
                          [] OTHER      -> NoLocals[f] ] ]
    /\ conn = AsyncHZConnector
    /\ locks = [ lock \in {0} |-> asyncio_Lock ]

\* The state of the connector and its callers as one value
World == [ pc |-> pc, frames |-> frames, ret |-> ret, conn |-> conn, locks |-> locks ]

\* The next state is w
Becomes(w) ==
    /\ pc' = w.pc
    /\ frames' = w.frames
    /\ ret' = w.ret
    /\ conn' = w.conn
    /\ locks' = w.locks
    /\ UNCHANGED <<args, ret2, tables>>

\* Lines 225-232 and 292: the call up to its first suspension.  With
\* retry < 0 the loop has no iteration and line 292 raises.
MakeRequestAsync(t) ==
    /\ pc[t] = "call"
    /\ Becomes(IF args.retry[t] < 0
               THEN Finish(_ensure_session(World), t, Raise("RuntimeError"))
               ELSE EnsureToken(_ensure_session(World), t))

\* Lock.acquire() returns to the first waiter of a released lock
LockAcquired(t) ==
    /\ pc[t] = "wait"
    /\ LET lock == frames[t].lock
       IN  /\ ~locks[lock].locked
           /\ locks[lock].waiters # <<>>
           /\ Head(locks[lock].waiters) = t
           /\ Becomes(AfterAcquire([World EXCEPT !.locks[lock].waiters = Tail(@),
                                                 !.locks[lock].locked = TRUE], t))

\* The login or refresh request of caller t ends (lines 119-140, 170-188,
\* 205-212): a token is stored and the request to the endpoint is sent with
\* it, or the failure leads to the login of line 208, or the failure of
\* that login is raised
AuthResponse(t) ==
    /\ pc[t] = "auth"
    /\ \E o \in AuthOutcomes :
           IF o.ok
           THEN LET w == [StoreToken(World, frames[t].kind, o) EXCEPT !.frames[t].kind = "none"]
                IN  Becomes(SendRequest(Release(TakeToken(w, t), frames[t].lock), t))
           ELSE IF frames[t].kind = "relogin"
           THEN Becomes(Finish(Release(World, frames[t].lock), t, Raise("Exception")))
           ELSE Becomes(StartAuth(World, t, "relogin"))

\* The request of caller t to the endpoint ends (lines 248-290)
Response(t) ==
    /\ pc[t] = "request"
    /\ \E o \in Outcomes :
           LET w == [World EXCEPT !.frames[t].last = o]
               more == HasAttemptsLeft(frames[t].attempt, args.retry[t])
           IN  CASE o = "ok" -> Becomes(Finish(w, t, Return("json")))
                 [] o = "http401" ->
                        IF more THEN Becomes(Continue(w, t, o))
                        ELSE Becomes(Finish([w EXCEPT !.conn._token_expires_at = "past"],
                                            t, Raise("ClientResponseError")))
                 [] o = "biz401" ->
                        IF more THEN Becomes(Continue(w, t, o))
                        ELSE Becomes(Finish(w, t, Return("json")))
                 [] o = "client_error" ->
                        IF more THEN Becomes([w EXCEPT !.pc[t] = "sleep"])
                        ELSE Becomes(Finish(w, t, Raise("ClientError")))
                 [] o = "other_error" -> Becomes(Finish(w, t, Raise("RuntimeError")))

\* Lines 284-285: asyncio.sleep(1.0) ends and the loop goes on
Sleep(t) ==
    /\ pc[t] = "sleep"
    /\ Becomes(EnsureToken([World EXCEPT !.frames[t].attempt = @ + 1], t))

\* close() on an open session (lines 88-89)
Close ==
    /\ conn._session # 0
    /\ ~conn.closed
    /\ conn._session < MaxSessions
    /\ conn' = [conn EXCEPT !.closed = TRUE]
    /\ UNCHANGED <<pc, args, ret, ret2, tables, frames, locks>>

\* Time passes _token_expires_at (line 196)
TokenExpires ==
    /\ conn._token_expires_at = "future"
    /\ conn' = [conn EXCEPT !._token_expires_at = "past"]
    /\ UNCHANGED <<pc, args, ret, ret2, tables, frames, locks>>

CallerStep(t) ==
    \/ MakeRequestAsync(t)
    \/ LockAcquired(t)
    \/ AuthResponse(t)
    \/ Response(t)
    \/ Sleep(t)

NextConnector ==
    \/ \E t \in Callers : CallerStep(t)
    \/ Close
    \/ TokenExpires

SpecConnector == InitConnector /\ [][NextConnector]_vars

\* The event loop runs every coroutine that can run, and every request ends,
\* with a response or with the timeout of the session
SpecConnectorFair == SpecConnector /\ \A t \in Callers : WF_vars(CallerStep(t))

----------------------------------------------------------------------------
(* Properties *)

Done == pc = {}

Called(name) == name \notin pc

\* The arguments meet the constraint of their own field (strike is gt=0)
StrikeAccepted == IsNone(args.strike) \/ Val(args.strike) > 0

\* C1: every call of normalize_quote returns an InquiryQuote that never has
\* both strike and strike_offset: a given strike is kept and strike_offset is
\* null; with no strike, strike_offset is the strike_offset argument.
C1_StrikeWinsOverOffset ==
    (Done /\ StrikeAccepted) =>
        /\ Returned(ret)
        /\ IsNone(ret.value.strike) \/ IsNone(ret.value.strike_offset)
        /\ ~IsNone(args.strike) =>
               (ret.value.strike = args.strike /\ IsNone(ret.value.strike_offset))
        /\ IsNone(args.strike) => ret.value.strike_offset = args.strike_offset

\* C2: normalize_quote always produces one InquiryQuote and never raises for
\* missing fields: every absent argument gives a null output field, and a call
\* given only the current date returns the record with all fields null.
C2_AbsentFieldsAreNullNeverRaised ==
    (Done /\ StrikeAccepted) =>
        /\ Returned(ret)
        /\ (IsNone(args.product_code) \/ IsNone(args.contract_month))
               => IsNone(ret.value.contract_code)
        /\ IsNone(args.call_put) => IsNone(ret.value.call_put)
        /\ IsNone(args.buy_sell) => IsNone(ret.value.buy_sell)
        /\ (IsNone(args.strike) /\ IsNone(args.strike_offset))
               => (IsNone(ret.value.strike) /\ IsNone(ret.value.strike_offset))
        /\ IsNone(args.underlying_price) => IsNone(ret.value.underlying_price)
        /\ ( /\ IsNone(args.expire_date)
             /\ IsNone(args.expire_in_months)
             /\ IsNone(args.expire_in_natural_days)
             /\ IsNone(args.expire_in_trading_days) ) => IsNone(ret.value.expire_date)

\* The result the relative durations alone give, by their precedence: months,
\* then trading days, then natural days, else null
RelativeExpiry ==
    IF ~IsNone(args.expire_in_months)
    THEN IsoOf(add_months(args.current_date, Val(args.expire_in_months)))
    ELSE IF ~IsNone(args.expire_in_trading_days)
    THEN IsoOf(add_trading_days_weekends_only(args.current_date,
                                              Val(args.expire_in_trading_days)))
    ELSE IF ~IsNone(args.expire_in_natural_days)
    THEN IsoOf(add_natural_days(args.current_date, Val(args.expire_in_natural_days)))
    ELSE Return(None)

ExplicitGiven(S) ==
    ~IsNone(args.explicit_expire_date) /\ Val(args.explicit_expire_date) \in S

\* C3: infer_expire_date resolves the expiry by strict precedence, first match
\* wins: a parseable explicit date, then months, then trading days, then
\* natural days; a lower input never affects the result under a higher one,
\* and the result is null when none is given.
C3_ExpiryPrecedence ==
    Done =>
        IF ExplicitGiven(ParseableExpireDates)
        THEN ret = Return(Some(isoformat(Val(_parse_expire_date_str(
                        Val(args.explicit_expire_date), args.current_date).value))))
        ELSE ret = RelativeExpiry

\* C3 witness: an explicit date wins over all three durations given with it
C3_Witness ==
    /\ Done
    /\ args.explicit_expire_date = Some(<<"2","0","2","6","-","0","4","-","1","5">>)
    /\ args.expire_in_months = Some(2)
    /\ args.expire_in_trading_days = Some(2)
    /\ args.expire_in_natural_days = Some(20)
    /\ ret = Return(Some(<<"2","0","2","6","-","0","4","-","1","5">>))

\* C4: an explicit expiry string that names no valid calendar date raises no
\* error: the absolute branch does not match, the relative durations are tried
\* in their order, and the result is null if none is given.
C4_UnparseableFallsThrough ==
    (Done /\ ExplicitGiven(UnparseableExpireDates)) =>
        /\ Returned(ret)
        /\ ret = RelativeExpiry

\* C4 witness: on Thursday 2026-02-12 the 30th of February falls through to two
\* trading days
C4_Witness ==
    /\ Done
    /\ args.current_date = <<2026, 2, 12>>
    /\ args.explicit_expire_date = Some(<<"2", YUE, "3", "0", RI>>)
    /\ IsNone(args.expire_in_months)
    /\ args.expire_in_trading_days = Some(2)
    /\ args.expire_in_natural_days = Some(20)
    /\ ret = Return(Some(<<"2","0","2","6","-","0","2","-","1","6">>))

\* A product code of 1 to 6 letters
IsLetters(p) == Len(p) \in 1..6 /\ \A j \in DOMAIN p : IsLetter(p[j])

\* The arguments name a product of 1 to 6 letters and a month in 1..12
ProductAndMonthGiven ==
    /\ ~IsNone(args.product_code)
    /\ IsLetters(Val(args.product_code))
    /\ ~IsNone(args.contract_month)
    /\ Val(args.contract_month) \in 1..12

\* C5: for a product of 1 to 6 letters, a month in 1..12 and no year or a
\* two-digit year, infer_contract_code on the token product + [YY] + MM returns
\* what build_contract_code_from_parts returns for the parts.
C5_PathsAgree ==
    ( /\ Done
      /\ ProductAndMonthGiven
      /\ (IsNone(args.contract_year) \/ Val(args.contract_year) \in 0..99) )
    => ret2.value = ret.value

\* Current year mod 100 if the month is not before the current month, else
\* the next year mod 100
CurrentOrNextYear ==
    IF Val(args.contract_month) >= Month(args.current_date)
    THEN Year(args.current_date) % 100
    ELSE (Year(args.current_date) + 1) % 100

\* C6: with no contract year, infer_contract_code (product + month) and
\* build_contract_code_from_parts both take the current year mod 100 when the
\* month is >= the current month, and (current year + 1) mod 100 otherwise.
\* (A product of suffix format YMM shows the last digit of that year.)
C6_YearCompletion ==
    (ProductAndMonthGiven /\ IsNone(args.contract_year)) =>
        LET P == upper(Val(args.product_code))
            E == CurrentOrNextYear
            M == Format(Val(args.contract_month), 2)
        IN  /\ Called("build_contract_code_from_parts") =>
                   ret = Return(Some(P \o (IF P \in PRODUCT_SUFFIX_FORMAT
                                           THEN str(E % 10)
                                           ELSE Format(E, 2)) \o M))
            /\ Called("infer_contract_code") =>
                   ret2 = Return(Some(P \o Format(E, 2) \o M))

\* C6 witness: in December 2099 month 1 is completed to year 00 on both paths
C6_Witness ==
    /\ Done
    /\ args.current_date = <<2099, 12, 31>>
    /\ args.product_code = Some(<<"h","c">>)
    /\ args.contract_month = Some(1)
    /\ IsNone(args.contract_year)
    /\ ret = Return(Some(<<"H","C","0","0","0","1">>))
    /\ ret2 = Return(Some(<<"H","C","0","0","0","1">>))

\* C7: every contract code build_contract_code_from_parts produces matches
\* [A-Z]+[0-9]{3,4}.
C7_ContractCodePattern ==
    (Called("build_contract_code_from_parts") /\ ~IsNone(ret.value))
        => MatchesContractCodePattern(Val(ret.value))

\* C8: a produced code is the uppercase product, then the single digit
\* year mod 10 for a YMM product and the two-digit year otherwise, then the
\* two-digit month.
C8_SuffixFormat ==
    (Called("build_contract_code_from_parts") /\ ~IsNone(ret.value)) =>
        LET P    == upper(strip(Val(args.product_code)))
            year == Val(_resolve_contract_year(Val(args.contract_month),
                                               args.current_date, args.contract_year))
            M    == Format(Val(args.contract_month), 2)
            code == Val(ret.value)
        IN  IF P \in PRODUCT_SUFFIX_FORMAT
            THEN Len(code) = Len(P) + 3 /\ code = P \o str(year % 10) \o M
            ELSE Len(code) = Len(P) + 4 /\ code = P \o Format(year, 2) \o M

\* The parts break the caller's contract: a product that is not 1 to 6
\* letters, a month outside 1..12, or a negative year
InvalidParts ==
    /\ ~IsNone(args.product_code)
    /\ ~IsNone(args.contract_month)
    /\ \/ ~IsLetters(strip(Val(args.product_code)))
       \/ Val(args.contract_month) \notin 1..12
       \/ (~IsNone(args.contract_year) /\ Val(args.contract_year) < 0)

\* C9 as stated: build_contract_code_from_parts raises an exception for a
\* malformed product code, a month outside 1..12 and a negative year.
C9_InvalidPartsRaise ==
    (Called("build_contract_code_from_parts") /\ InvalidParts) => Raised(ret)

\* C9 as amended: for a malformed product code, a month outside 1..12 and a
\* negative year build_contract_code_from_parts raises nothing and returns null.
C9_InvalidPartsReturnNone ==
    (Called("build_contract_code_from_parts") /\ InvalidParts) => ret = Return(None)

\* C9 witness: a negative year with a valid product and month gave null
C9_Witness ==
    /\ Called("build_contract_code_from_parts")
    /\ args.product_code = Some(<<"h","c">>)
    /\ args.contract_month = Some(5)
    /\ args.contract_year = Some(-1)
    /\ ret = Return(None)

\* 1 to 6 uppercase letters followed by four digits, the last two a month
IsProductYYMM(s) ==
    /\ Len(s) \in 5..10
    /\ \A j \in 1..(Len(s) - 4) : IsUpper(s[j])
    /\ \A j \in (Len(s) - 3)..Len(s) : IsDigit(s[j])
    /\ int(SubSeq(s, Len(s) - 1, Len(s))) \in 1..12

\* C10: normalize_contract_code is idempotent for a fixed current date: a
\* non-null result is returned unchanged when normalized again, and it is 1 to
\* 6 uppercase letters followed by four digits whose last two are a month.
C10_NormalizeIdempotent ==
    /\ (Called("normalize_contract_code") /\ ~IsNone(ret.value))
           => IsProductYYMM(Val(ret.value))
    /\ (Done /\ ~IsNone(ret.value)) => ret2 = ret

\* C10 witness: "h 12" read in February 2026 gave H2612, and H2612 again
C10_Witness ==
    /\ Done
    /\ args.current_date = <<2026, 2, 12>>
    /\ args.value = Some(<<"h", " ", "1", "2">>)
    /\ ret = Return(Some(<<"H","2","6","1","2">>))
    /\ ret2 = ret

\* The length of the run of letters of s that starts at position i
RECURSIVE LetterRun(_, _)
LetterRun(s, i) == IF i <= Len(s) /\ IsLetter(s[i]) THEN 1 + LetterRun(s, i + 1) ELSE 0

\* A product token with k digits starts at position i of t: a whole run of 1
\* to 6 letters, then white space of width w, then a run of exactly k digits
TokenAt(t, i, w, k) ==
    LET n == LetterRun(t, i)
    IN  /\ i = 1 \/ ~IsLetter(t[i - 1])
        /\ n \in 1..6
        /\ SpaceRun(t, i + n) = w
        /\ DigitRun(t, i + n + w) = k

TokenLetters(t, i) == SubSeq(t, i, i + LetterRun(t, i) - 1)

TokenDigits(t, i) ==
    LET d == i + LetterRun(t, i) + SpaceRun(t, i + LetterRun(t, i))
    IN  SubSeq(t, d, d + DigitRun(t, d) - 1)

\* A month 01..12 as the last two digits of the token at i
TokenMonthValid(t, i) ==
    LET d == TokenDigits(t, i)
    IN  int(SubSeq(d, Len(d) - 1, Len(d))) \in 1..12

\* The positions of the product tokens with k digits, the digits directly
\* after the letters
DirectTokens(t, k) == { i \in 1..Len(t) : TokenAt(t, i, 0, k) }

\* The positions of the product tokens with k digits, white space allowed
\* between letters and digits
SpacedTokens(t, k) == { i \in 1..Len(t) : \E w \in 0..Len(t) : TokenAt(t, i, w, k) }

\* C11 as stated: whenever the text contains 1 to 6 letters directly followed
\* by exactly four digits whose last two are a month in 01..12,
\* infer_contract_code returns those letters in upper case followed by the
\* same four digits, whatever the current date.
C11_AnyExplicitYYMM ==
    Done =>
        \A i \in DirectTokens(strip(args.text), 4) :
            TokenMonthValid(strip(args.text), i) =>
                ret2 = Return(Some(upper(TokenLetters(strip(args.text), i))
                                     \o TokenDigits(strip(args.text), i)))

\* C11 amended: when the leftmost run of 1 to 6 letters of the text that is
\* followed, after optional white space, by exactly four digits has a month
\* in 01..12 as its last two digits, infer_contract_code returns those letters
\* in upper case followed by the same four digits, whatever the current date;
\* a later token is never looked at.
C11_LeftmostExplicitYYMM ==
    Done =>
        LET t      == strip(args.text)
            tokens == SpacedTokens(t, 4)
        IN  \A i \in tokens :
                ((\A j \in tokens : i <= j) /\ TokenMonthValid(t, i)) =>
                    ret2 = Return(Some(upper(TokenLetters(t, i)) \o TokenDigits(t, i)))

\* C11 witness: "hc2610" followed by a CJK character, read on 2099-12-31,
\* gave HC2610
C11_Witness ==
    /\ Done
    /\ args.current_date = <<2099, 12, 31>>
    /\ args.text = <<"h","c","2","6","1","0", MING>>
    /\ ret2 = Return(Some(<<"H","C","2","6","1","0">>))

\* The months counted from year 0: year * 12 + (month - 1)
MonthIndex(d) == Year(d) * 12 + (Month(d) - 1)

\* args.months is a whole number n of months, and the month n months from
\* the start is a month of datetime.date
WholeMonthsInRange ==
    /\ args.months % 2 = 0
    /\ (MonthIndex(args.start) + args.months \div 2) \in (MINYEAR * 12)..(MAXYEAR * 12 + 11)

\* C12: for any whole number n of months, add_months(start, n) returns the
\* date whose year and month lie exactly n calendar months from the start's
\* and whose day is min(start.day, last day of that month); the month is in
\* 1..12 and the year is carried for negative n.
C12_WholeMonthsClamped ==
    (Called("add_months") /\ WholeMonthsInRange) =>
        /\ Returned(ret)
        /\ Month(ret.value) \in 1..12
        /\ MonthIndex(ret.value) = MonthIndex(args.start) + args.months \div 2
        /\ Day(ret.value) = Min(Day(args.start), DaysInMonth(Year(ret.value), Month(ret.value)))

\* The weekday of the date with ordinal o: 0001-01-01, ordinal 1, is a Monday
OrdinalWeekday(o) == (o - 1) % 7

\* The number of Monday-to-Friday dates in the interval (a, b] of ordinals
WeekdaysIn(a, b) == Cardinality({ o \in (a + 1)..b : OrdinalWeekday(o) < 5 })

\* C13: add_trading_days_weekends_only(start, days) returns start when
\* days <= 0; when days >= 1 it terminates and returns a Monday-to-Friday date
\* strictly after start with exactly `days` weekdays in (start, result],
\* whatever weekday start falls on.
C13_TradingDays ==
    Called("add_trading_days_weekends_only") =>
        /\ args.days <= 0 => ret2 = Return(args.start)
        /\ args.days >= 1 =>
               /\ Returned(ret2)
               /\ toordinal(ret2.value) > toordinal(args.start)
               /\ OrdinalWeekday(toordinal(ret2.value)) < 5
               /\ WeekdaysIn(toordinal(args.start), toordinal(ret2.value)) = args.days

\* C13 witness: 7 trading days from Saturday 2026-02-14 end on Tuesday
\* 2026-02-24, two weekends later
C13_Witness ==
    /\ Called("add_trading_days_weekends_only")
    /\ args.start = <<2026, 2, 14>>
    /\ args.days = 7
    /\ ret2 = Return(<<2026, 2, 24>>)

\* C14: find_product_candidates returns an empty list and raises nothing when
\* top_k <= 0 or when the query normalizes to the empty string.
C14_EmptyResult ==
    (Called("find_product_candidates")
        /\ (args.top_k <= 0 \/ _normalize_product_text(args.query) = <<>>))
    => ret = Return(<<>>)

\* C14 witness: two full-width commas with top_k = 3 and every fuzzy score at
\* 99.996 gave the empty list
C14_Witness ==
    /\ Called("find_product_candidates")
    /\ args.query = <<"U+FF0C", "U+FF0C">>
    /\ args.top_k = 3
    /\ \A i \in DOMAIN args.scores : args.scores[i] = 99996
    /\ ret = Return(<<>>)

\* The matches of the three passes for args, in the order the call makes
\* them, each as [code, alias, score]
MatchSeq ==
    LET entries == _PRODUCT_ALIAS_ENTRIES
        nq      == _normalize_product_text(args.query)
        tokens  == FindAllAlpha(nq, 1)
        limit   == Min(Len(entries), Max(args.top_k * 5, 10))
        results == IF FuzzyQuery(args.query) = <<>> THEN <<>>
                   ELSE rapidfuzz_process_extract(args.scores,
                            [ i \in DOMAIN entries |-> entries[i].alias ], limit)
        pass1   == SelectSeq([ i \in DOMAIN entries |->
                                 [ code  |-> entries[i].code,
                                   alias |-> entries[i].alias,
                                   score |-> 100 * ScoreUnit,
                                   hit   |-> /\ entries[i].normalized_alias # <<>>
                                             /\ IsSubstring(entries[i].normalized_alias, nq) ] ],
                             LAMBDA m : m.hit)
        pass2   == SelectSeq([ i \in DOMAIN tokens |->
                                 [ code  |-> tokens[i],
                                   alias |-> tokens[i],
                                   score |-> 100 * ScoreUnit,
                                   hit   |-> tokens[i] \in _KNOWN_PRODUCT_CODES ] ],
                             LAMBDA m : m.hit)
        pass3   == SelectSeq([ i \in DOMAIN results |->
                                 [ code  |-> AliasToCode(entries, results[i].alias),
                                   alias |-> results[i].alias,
                                   score |-> results[i].score,
                                   hit   |-> results[i].score >= 60 * ScoreUnit ] ],
                             LAMBDA m : m.hit)
    IN  pass1 \o pass2 \o pass3

\* A score clamped to [0, 100]
Clamped(score) == Max(0, Min(100 * ScoreUnit, score))

\* The first of the matches for a code that has the highest clamped score
FirstBestMatch(code) ==
    LET ms   == { i \in DOMAIN MatchSeq : MatchSeq[i].code = code }
        best == { i \in ms : \A j \in ms : Clamped(MatchSeq[i].score) >= Clamped(MatchSeq[j].score) }
    IN  MatchSeq[CHOOSE i \in best : \A j \in best : i <= j]

\* C15: find_product_candidates returns at most one candidate per product
\* code; that candidate carries the highest score any alias, code-token or
\* fuzzy match produced for the code, clamped to [0,100] (and rounded to two
\* decimals); a later match with an equal or lower score never replaces the
\* retained candidate, so the candidate is the first match with that score.
C15_HighestScorePerCode ==
    (Called("find_product_candidates") /\ Returned(ret)) =>
        /\ \A i, j \in DOMAIN ret.value :
               ret.value[i].product_code = ret.value[j].product_code => i = j
        /\ \A i \in DOMAIN ret.value :
               LET best == FirstBestMatch(ret.value[i].product_code)
               IN  /\ ret.value[i].score = Round2(Clamped(best.score))
                   /\ ret.value[i].matched_alias = best.alias

\* The call went past its two guards and merged candidates
Merged == Called("find_product_candidates") /\ frames # <<>>

\* The merged candidates: the values of the dict `candidates` at line 102
MergedSet == { frames[1][c] : c \in DOMAIN frames[1] }

\* a comes before b: higher score, or equal score and smaller product code
ComesBefore(a, b) ==
    \/ a.score > b.score
    \/ (a.score = b.score /\ CodeLess(a.product_code, b.product_code))

\* C16: the result of find_product_candidates is ordered by score descending
\* and then product code ascending, and it is exactly the first top_k elements
\* of that ordering of all merged candidates: its length never exceeds top_k
\* and no omitted candidate ranks before a returned one.
C16_RankedTopK ==
    Merged =>
        /\ Len(ret.value) = Min(args.top_k, Cardinality(MergedSet))
        /\ \A i \in DOMAIN ret.value : ret.value[i] \in MergedSet
        /\ \A i, j \in DOMAIN ret.value : i < j => ComesBefore(ret.value[i], ret.value[j])
        /\ \A m \in MergedSet \ Range(ret.value) :
               \A i \in DOMAIN ret.value : ComesBefore(ret.value[i], m)

\* C16 witness: HC, OI and RB all matched, RB with the lower score 85.71;
\* top_k = 2 returned HC and OI and left RB out
C16_Witness ==
    /\ Merged
    /\ args.top_k = 2
    /\ Cardinality(MergedSet) = 3
    /\ Len(ret.value) = 2
    /\ ret.value[1].product_code = <<"H", "C">>
    /\ ret.value[1].score = 100 * ScoreUnit
    /\ ret.value[2].product_code = <<"O", "I">>
    /\ ret.value[2].score = 100 * ScoreUnit
    /\ \E m \in MergedSet : m.product_code = <<"R", "B">> /\ m.score = 85710

\* The codes that have score 100 among the merged candidates
Score100Codes == { c \in DOMAIN frames[1] : frames[1][c].score = 100 * ScoreUnit }

\* C17: every alias of the static table whose non-empty normalized form is a
\* substring of the normalized query gives its canonical code a score of
\* exactly 100 in the merged candidates, and that code is returned unless
\* top_k other codes that also score 100 precede it in ascending code order.
C17_AliasSubstringScores100 ==
    Merged =>
        \A i \in DOMAIN PRODUCT_ALIAS_TO_CODE :
            LET normalized_alias == _normalize_product_text(PRODUCT_ALIAS_TO_CODE[i][1])
                code             == upper(strip(PRODUCT_ALIAS_TO_CODE[i][2]))
            IN  (normalized_alias # <<>>
                    /\ IsSubstring(normalized_alias, _normalize_product_text(args.query)))
                =>  /\ code \in Score100Codes
                    /\ \/ \E k \in DOMAIN ret.value : ret.value[k].product_code = code
                       \/ Cardinality({ d \in Score100Codes : CodeLess(d, code) }) >= args.top_k

\* C17 witness: the alias U+87BA U+7EB9 of RB is part of the query, RB scores
\* 100 and is left out of the result of top_k = 1 because HC, also at 100,
\* precedes it
C17_Witness ==
    /\ Merged
    /\ args.query = <<"U+87BA", "U+7EB9", "U+70ED", "U+5377">>
    /\ args.top_k = 1
    /\ <<"R", "B">> \in Score100Codes
    /\ Len(ret.value) = 1
    /\ ret.value[1].product_code = <<"H", "C">>

\* C18: find_product_candidates, build_contract_code_from_parts and
\* normalize_quote never modify the alias table, the known-code set or the
\* suffix-format table, and in any sequence or interleaving of calls each
\* call returns what the same call returns when made alone with the same
\* arguments and current date.
C18_CallsIndependent ==
    /\ tables = StaticTables
    /\ \A self \in FindCalls :
           ret[self] # Pending =>
               ret[self] = Return(find_product_candidates(args.find[self].query,
                                                          args.find[self].top_k,
                                                          args.find[self].scores))
    /\ ret[3] # Pending =>
           ret[3] = build_contract_code_from_parts(args.build.current_date, args.build.product_code,
                                                   args.build.contract_month, args.build.contract_year)
    /\ ret[4] # Pending => ret[4] = normalize_quote(args.quote)

\* C18 witness: the first find_product_candidates call has returned HC and OI
\* and build_contract_code_from_parts has returned OI605 while the second
\* find_product_candidates call, with another query, is between its token
\* and fuzzy passes with RB in its own dict, and normalize_quote has not
\* started
C18_Witness ==
    /\ pc = { <<2, "fuzzy pass">>, <<4, "normalize_quote">> }
    /\ args.find[1].query # args.find[2].query
    /\ Returned(ret[1])
    /\ Len(ret[1].value) = 2
    /\ ret[1].value[1].product_code = <<"H", "C">>
    /\ ret[1].value[2].product_code = <<"O", "I">>
    /\ DOMAIN frames[2] = { <<"R", "B">> }
    /\ ret[3] = Return(Some(<<"O","I","6","0","5">>))

\* The two-digit years ending in the digit y that are not already past: later
\* than the current two-digit year, or equal to it with the contract month
\* not before the current month
NotPastYears(y) ==
    { r \in 0..99 :
        /\ r % 10 = y
        /\ \/ r > Year(args.current_date) % 100
           \/ /\ r = Year(args.current_date) % 100
              /\ Val(args.contract_month) >= Month(args.current_date) }

\* The year the explicit contract year of args has to resolve to, if any
ExpectedYears ==
    LET y == Val(args.contract_year)
    IN  IF y >= 100 THEN { y % 100 }
        ELSE IF y >= 10 THEN { y }
        ELSE { r \in NotPastYears(y) :
                 /\ \A q \in NotPastYears(y) : r <= q
                 /\ r >= Year(args.current_date) % 100
                 /\ r <= (Year(args.current_date) % 100) + 10 }

\* C19: explicit contract year in build_contract_code_from_parts: a year >=
\* 100 is reduced mod 100, a year in 10..99 is used as given, and a
\* single-digit year y is resolved to the nearest two-digit year ending in y
\* that is not already past (the same-decade candidate, plus 10 exactly when
\* it is earlier than the current two-digit year, or equal to it with the
\* contract month before the current month), never below the current
\* two-digit year and never more than 10 above it.  (A product of suffix
\* format YMM shows the last digit of that year.)
C19_ExplicitYearResolution ==
    ( /\ Called("build_contract_code_from_parts")
      /\ ProductAndMonthGiven
      /\ ~IsNone(args.contract_year)
      /\ Val(args.contract_year) >= 0 )
    => \E r \in ExpectedYears :
           LET P == upper(Val(args.product_code))
               M == Format(Val(args.contract_month), 2)
           IN  ret = Return(Some(P \o (IF P \in PRODUCT_SUFFIX_FORMAT
                                       THEN str(r % 10)
                                       ELSE Format(r, 2)) \o M))

\* The positions of the product tokens with a 1 or 2 digit month
MonthTokens(t) == SpacedTokens(t, 1) \cup SpacedTokens(t, 2)

\* The leftmost position of a non-empty set of positions
Leftmost(S) == CHOOSE i \in S : \A j \in S : i <= j

\* The code of the product + month token at i: the current year mod 100 if
\* the month is not before the current month, else the next year mod 100
MonthTokenCode(t, i) ==
    LET month == int(TokenDigits(t, i))
        year  == IF month >= Month(args.current_date)
                 THEN Year(args.current_date) % 100
                 ELSE (Year(args.current_date) + 1) % 100
    IN  upper(TokenLetters(t, i)) \o Format(year, 2) \o Format(month, 2)

\* C20: infer_contract_code falls back to the product + 1-2 digit month
\* pattern whenever the explicit 4-digit YYMM attempt fails, including when a
\* product + 4-digit token is present but its last two digits are not a month
\* in 01..12: a valid product + month token elsewhere in the text is then
\* still resolved to a contract code.
C20_FallsBackToMonthPattern ==
    Done =>
        LET t == strip(args.text)
        IN  ( /\ SpacedTokens(t, 4) # {}
              /\ ~TokenMonthValid(t, Leftmost(SpacedTokens(t, 4)))
              /\ MonthTokens(t) # {}
              /\ TokenMonthValid(t, Leftmost(MonthTokens(t))) )
            => ret2 = Return(Some(MonthTokenCode(t, Leftmost(MonthTokens(t)))))

\* d1 is an earlier calendar date than d2
DateLess(d1, d2) ==
    \/ Year(d1) < Year(d2)
    \/ Year(d1) = Year(d2) /\ MonthDayLess(Month(d1), Day(d1), Month(d2), Day(d2))

\* C21: for an "M<month sign>D<day sign>" expiry string the year is the current
\* year when (M, D) is not earlier than the current (month, day) and the next
\* year otherwise: a resolved date is never earlier than the current date, is
\* at most one year after it, and is the current date when M and D name today.
C21_MonthDayYear ==
    Done =>
        LET c == args.current_date
            M == args.month
            D == args.day
        IN  /\ Returned(ret)
            /\ (M = Month(c) /\ D = Day(c)) => ret.value = Some(c)
            /\ ~IsNone(ret.value) =>
                  LET d == Val(ret.value)
                  IN  /\ Month(d) = M
                      /\ Day(d) = D
                      /\ Year(d) = IF MonthDayLess(M, D, Month(c), Day(c))
                                   THEN Year(c) + 1
                                   ELSE Year(c)
                      /\ ~DateLess(d, c)
                      /\ ~DateLess(<<Year(c) + 1, Month(c), Day(c)>>, d)

\* C21 witness: on 2023-03-01 the 29th of February, already past, is resolved
\* in the next year
C21_Witness ==
    /\ Done
    /\ args.current_date = <<2023, 3, 1>>
    /\ args.month = 2
    /\ args.day = 29
    /\ ret = Return(Some(<<2024, 2, 29>>))

\* The maximal runs of uppercase letters of s that have 1 to 6 letters
MaximalUpperRuns(s) ==
    { SubSeq(s, i, j) : <<i, j>> \in
        { p \in (1..Len(s)) \X (1..Len(s)) :
            /\ p[1] <= p[2]
            /\ p[2] - p[1] < 6
            /\ \A k \in p[1]..p[2] : IsUpper(s[k])
            /\ p[1] = 1 \/ ~IsUpper(s[p[1] - 1])
            /\ p[2] = Len(s) \/ ~IsUpper(s[p[2] + 1]) } }

\* The codes whose merged candidate is a code-token match of Pass 2: the
\* token itself is the matched alias, and no alias of the table is a code
TokenMatchedCodes == { c \in DOMAIN frames[1] : frames[1][c].matched_alias = c }

\* C22: Pass 2 of find_product_candidates gives score 100 to exactly those
\* known canonical codes that equal a maximal run of 1 to 6 uppercase letters
\* of the normalized query; a piece of a longer letter run is not a token and
\* gives no match.
C22_TokensAreMaximalRuns ==
    Merged =>
        LET runs == MaximalUpperRuns(_normalize_product_text(args.query))
        IN  /\ \A code \in _KNOWN_PRODUCT_CODES \cap runs : code \in Score100Codes
            /\ TokenMatchedCodes \subseteq runs

\* The entries of the table that match the query deterministically: by their
\* normalized alias (Pass 1) or by their code as a token (Pass 2)
DeterministicCodes ==
    LET entries == tables._PRODUCT_ALIAS_ENTRIES
        nq      == _normalize_product_text(args.query)
    IN  { entries[i].code : i \in { j \in DOMAIN entries :
                                      \/ /\ entries[j].normalized_alias # <<>>
                                         /\ IsSubstring(entries[j].normalized_alias, nq)
                                      \/ \E t \in Range(FindAllAlpha(nq, 1)) : t = entries[j].code } }

\* The window of the fuzzy matcher
Window == Min(Len(tables._PRODUCT_ALIAS_ENTRIES), Max(args.top_k * 5, 10))

\* The index of an alias in the table
AliasIndex(alias) ==
    CHOOSE i \in DOMAIN tables._PRODUCT_ALIAS_ENTRIES :
        tables._PRODUCT_ALIAS_ENTRIES[i].alias = alias

\* The merged candidates that only the fuzzy matcher produced
FuzzyOnly == { m \in MergedSet : m.product_code \notin DeterministicCodes }

\* C23: every candidate returned by find_product_candidates has a score in
\* [0,100] and none has a score below 60: deterministic matches score 100,
\* fuzzy matches scoring under 60 are discarded, and at most
\* min(table size, max(top_k*5, 10)) fuzzy matches are considered.
C23_ScoreRangeAndWindow ==
    Merged =>
        /\ \A i \in DOMAIN ret.value :
               /\ ret.value[i].score >= 60 * ScoreUnit
               /\ ret.value[i].score <= 100 * ScoreUnit
               /\ ret.value[i] \in MergedSet
        /\ \A m \in MergedSet :
               m.product_code \in DeterministicCodes => m.score = 100 * ScoreUnit
        /\ \A m \in FuzzyOnly :
               LET i == AliasIndex(m.matched_alias)
               IN  /\ args.scores[i] >= 60 * ScoreUnit
                   /\ Cardinality({ j \in DOMAIN args.scores :
                                      args.scores[j] > args.scores[i] }) < Window
        /\ Cardinality(FuzzyOnly) <= Window

\* C23 witness: all twelve aliases score 85.712 for a query without a
\* deterministic match and top_k = 2; the window is 10, so the first ten
\* aliases are considered, which stand for eight codes, and SN and AU are
\* not among the merged candidates
C23_Witness ==
    /\ Merged
    /\ args.query = <<"h", "c", " ", "r", "b">>
    /\ args.top_k = 2
    /\ \A i \in DOMAIN args.scores : args.scores[i] = 85712
    /\ Window = 10
    /\ Window < Len(tables._PRODUCT_ALIAS_ENTRIES)
    /\ DeterministicCodes = {}
    /\ Cardinality(FuzzyOnly) = 8
    /\ Len(ret.value) = 2
    /\ ret.value[1].product_code = <<"A", "L">>
    /\ ret.value[1].score = 85710

\* Caller t has sent no more requests than its loop has iterations, and its
\* call, once over, has returned the JSON object or raised; a 401 status or
\* a client error in answer to the last permitted request is raised
WithinAttempts(t) ==
    /\ frames[t].sent <= args.retry[t] + 1
    /\ pc[t] = "done" =>
           /\ ret[t] = Return("json") \/ Raised(ret[t])
           /\ (frames[t].sent = args.retry[t] + 1
                 /\ frames[t].last \in {"http401", "client_error"}) => Raised(ret[t])

\* A step in which caller t sends a request that is not its first: the
\* request before it ended with a 401 status, a business code 401 or a
\* client error, and fewer than retry + 1 requests had been sent
SendsAgain(t) ==
    (frames[t].sent >= 1 /\ frames'[t].sent # frames[t].sent) =>
        /\ frames'[t].sent = frames[t].sent + 1
        /\ frames'[t].last \in Retried
        /\ frames[t].sent < args.retry[t] + 1

\* C24: _make_request_async called with retry = r >= 0 sends at most r + 1
\* requests to the endpoint and always finishes, returning a JSON object or
\* raising; it sends a further request only after an HTTP 401, a business
\* code 401 or a client error while fewer than r + 1 requests have been
\* sent, and after the last permitted request an HTTP 401 or a client error
\* is raised to the caller.
C24_BoundedRetries ==
    /\ [](\A t \in Callers : args.retry[t] >= 0 => WithinAttempts(t))
    /\ [][\A t \in Callers : args.retry[t] >= 0 => SendsAgain(t)]_vars
    /\ <>(\A t \in Callers : pc[t] = "done")

\* C24 witness: a call with retry = 1 has sent its two requests, and the 401
\* status that answered the second was raised
C24_Witness ==
    \E t \in Callers :
        /\ args.retry[t] = 1
        /\ pc[t] = "done"
        /\ frames[t].sent = 2
        /\ frames[t].last = "http401"
        /\ ret[t] = Raise("ClientResponseError")

\* Caller t, its request answered by a 401 status or code with attempts
\* left, goes to the next attempt: the token is marked expired and no
\* request is sent in the same step
MarksExpired(t) ==
    (pc[t] = "request" /\ frames'[t].attempt = frames[t].attempt + 1) =>
        /\ conn'._token_expires_at = "past"
        /\ frames'[t].sent = frames[t].sent
        /\ ~frames'[t].fresh

\* The login of line 208 of caller t fails, and no token is stored: the
\* error is raised
ReloginFailureRaised(t) ==
    (pc[t] = "auth" /\ frames[t].kind = "relogin" /\ pc'[t] # "auth"
        /\ ~TokenValid(conn')) =>
        /\ pc'[t] = "done"
        /\ Raised(ret'[t])
        /\ frames'[t].sent = frames[t].sent

\* A call that is over sends nothing more
StaysDone(t) ==
    pc[t] = "done" =>
        pc'[t] = "done" /\ frames'[t].sent = frames[t].sent /\ ret'[t] = ret[t]

\* C25: within one _make_request_async call, after a response with HTTP
\* status 401 or business code 401 while attempts remain, the stored token
\* is marked expired and the next request is sent only after _ensure_token
\* has obtained a token from a refresh or login that completed after that
\* 401 was observed; if both the refresh and the fallback login fail, the
\* error is raised and no further request is sent.
C25_FreshTokenAfter401 ==
    /\ [](\A t \in Callers :
            (pc[t] = "request" /\ frames[t].last \in {"http401", "biz401"}) =>
                frames[t].token = "new")
    /\ [][\A t \in Callers : MarksExpired(t) /\ ReloginFailureRaised(t) /\ StaysDone(t)]_vars

\* C25 witness: the second request of a call is in flight after a business
\* code 401 answered the first, with a token that a login or refresh stored
\* after that 401
C25_Witness ==
    \E t \in Callers :
        /\ pc[t] = "request"
        /\ frames[t].attempt = 1
        /\ frames[t].sent = 2
        /\ frames[t].last = "biz401"
        /\ frames[t].kind = "none"
        /\ frames[t].token = "new"

\* The callers whose login or refresh request is in flight on a session
\* that is open
TokenRequestsInFlight ==
    { t \in Callers : /\ pc[t] = "auth"
                      /\ frames[t].session = conn._session
                      /\ ~conn.closed }

\* C26: token acquisition on one AsyncHZConnector is mutually exclusive: for
\* every interleaving of concurrent _make_request_async calls and close(),
\* at most one login or refresh request is in flight at any time, and
\* concurrent callers that find no valid token cause a single login whose
\* token the others reuse.
C26_OneTokenRequestInFlight == Cardinality(TokenRequestsInFlight) <= 1

====
